---- MODULE Spec2Model ----
(***************************************************************************)
(* Model of the Reddit custom-feed fetcher: the seen-set state store, the  *)
(* new-post filter, the poll cycle (run_once), the OAuth token manager and  *)
(* the rate-limited API client.                                            *)
(*                                                                         *)
(* Strings are sequences of one-character strings, so that the JSON        *)
(* encoding of the state file is a real conversion.  Times are integers     *)
(* (seconds in the token manager, milliseconds in the rate limiter).        *)
(***************************************************************************)
EXTENDS Integers, Sequences, FiniteSets, TLC

(* ---- bounds of the model ---- *)
\* longest listing handed to filter_new_posts in the filter specification
MaxListing == 3
\* longest batch handed to add_seen_batch in the State specification
MaxBatch == 2
\* longest listing a fetch of the poll loop returns
MaxCycleListing == 2
\* records the output files hold before the poll loop model stops appending
MaxOutput == 3
\* last value of the clock of the State specification
MaxTime == 14
\* last value of the clock of the poll-loop specification
MaxCycleTime == 7
\* fullnames one State object appends before the State specification stops adding
MaxInserted == 4
\* config.fetch.listing.incremental.max_seen_keep of the modelled run
max_seen_keep == 2
\* token-endpoint exchanges the token manager specification follows
MaxExchanges == 2
\* last value of the clock (seconds) of the token manager specification
MaxAuthTime == 200
\* requests the rate limiter specification releases
MaxRequests == 3
\* clock (milliseconds) at which the rate limiter specification starts, and its last value
ClientEpoch == 100000
MaxClientTime == 240000
\* config.rate_limit.max_qpm and safety_min_interval_ms of the modelled run
max_qpm == 2
safety_min_interval_ms == 700
\* config.network.retries and config.network.backoff_sec of the modelled run
retries == 2
backoff_sec == 1
\* config.fetch.listing.poll_interval_sec of the modelled run
poll_interval_sec == 2
\* cycles and client sleeps of one run of a command
MaxRunCycles == 2
MaxRunSleeps == 2
\* lines of an output file before a purge, chunks of the state document, and
\* operations on the files in one run
MaxLines == 4
StateChunks == 2
MaxPublishOps == 2
\* fullnames of a batch-detail fetch, subreddits of a feed, listing items of one
\* process_new_posts
MaxFullnames == 201
MaxSubreddits == 3
MaxProcessed == 3
\* elements of the array a comment request answers
MaxElements == 3
\* request() calls each thread of the two-lock specification makes
MaxLockCalls == 1
\* the step of the clock inside a sleep, and how far into a sleep the clock is followed
\* before the sleep ends (milliseconds)
SleepTick == 500
MaxSleepWatch == 1500

(* ---- program constants ---- *)
\* RedditAuth.EXPIRY_BUFFER_SEC
EXPIRY_BUFFER_SEC == 300
\* _request_token: token_data.get("expires_in", 3600)
DefaultExpiresIn == 3600
\* _wait_for_rate_limit: one_minute_ago = now - 60, in milliseconds
WindowMs == 60000
\* Fetcher.MAX_IDS_PER_INFO_REQUEST
MAX_IDS_PER_INFO_REQUEST == 100

VARIABLES
    seen_fullnames,   \* State._seen_fullnames: list of fullnames
    last_run_utc,     \* State._last_run_utc
    state_file,       \* content of the state file, or NoFile
    inserted,         \* history: every fullname appended to this State object, in order
                      \* (kept by the State specification only)
    listing_items,    \* run_once: the listing of the current cycle
    new_posts,        \* run_once: the PostData list of the current cycle
    posts_file,       \* the output files: the records appended so far, in order
    pc,               \* position of the poll loop inside run_once
    raised,           \* the exception the last operation raised, or "none"
    op,               \* history: name of the last operation applied
    saved,            \* history: the State value written by the last successful save
    now,              \* time.time()
    token_info,       \* RedditAuth._token_info: NoToken or <<token>>
    auth_lock,        \* RedditAuth._lock: the caller holding it, or NoHolder
    tpc,              \* per caller: position inside get_access_token
    call,             \* history, per caller: what the call in progress has seen
    result,           \* history, per caller: outcome of the last finished call
    exchanges,        \* history: number of token-endpoint requests sent so far
    invalidated,      \* history: the last invalidate_token, until the next lock holder
    respect_headers,  \* RedditClient._respect_headers (configuration)
    last_request_time,  \* RedditClient._last_request_time (milliseconds)
    request_times,    \* RedditClient._request_times
    remaining_requests, \* RedditClient._remaining_requests: <<>> for None, or <<n>>
    reset_time,       \* RedditClient._reset_time: <<>> for None, or <<t>>
    released,         \* history: the time recorded for every request, in order
    rpc,              \* position of the caller inside RedditClient.request
    attempt,          \* request: the local attempt
    token_refreshed,  \* request: the local token_refreshed
    headers,          \* request: the token of the Authorization header, or None
    outcome,          \* how the last request() call ended, or NoOutcome
    events,           \* history: what the current pass of the loop of request() did, in
                      \* order, after the send that ended the pass before it
    stats,            \* history: sends, invalidations and backoff sleeps of the call
    wpc,              \* position of the main thread inside cmd_run or cmd_once
    shutdown_requested, \* cli._shutdown_requested
    shutdown_at,      \* history: the time of the first shutdown signal, <<>> before it
    sleeping,         \* the time.sleep the main thread is in, or NoSleep
    poll_left,        \* cmd_run: iterations left of for _ in range(poll_interval_sec)
    exit_code,        \* what the command returned: <<>> while it runs, or <<n>>
    did,              \* history: validations, cycles, fetches, writes, saves of the run
    files,            \* the directory: path -> content of the file, or NoFile
    ppc,              \* position of the writer inside State.save or _purge_file
    job,              \* locals of the writer: what it writes and what it counted
    fn_in,            \* the arguments of the Fetcher or validator function under check
    fn_out,           \* what the function returned or raised
    rl_lock,          \* RedditClient._rate_limit_lock: the thread holding it, or NoHolder
    lpc,              \* per thread: position inside _wait_for_rate_limit
    local             \* per thread: the locals of _wait_for_rate_limit

stateVars == <<seen_fullnames, last_run_utc, state_file, inserted, saved>>
cycleVars == <<listing_items, new_posts, posts_file, pc>>
authVars == <<token_info, auth_lock, tpc, call, result, exchanges, invalidated>>
clientVars == <<respect_headers, last_request_time, request_times,
                remaining_requests, reset_time, released>>
requestVars == <<rpc, attempt, token_refreshed, headers, outcome, events, stats>>
runVars == <<wpc, shutdown_requested, shutdown_at, sleeping, poll_left, exit_code, did>>
publishVars == <<files, ppc, job>>
fnVars == <<fn_in, fn_out>>
threadVars == <<rl_lock, lpc, local>>
laterVars == <<runVars, publishVars, fnVars, threadVars>>
vars == <<stateVars, cycleVars, raised, op, now, authVars, clientVars, requestVars,
          laterVars>>
\* what the actions of the state store and of the poll loop never touch
beyondStore == <<authVars, clientVars, requestVars, laterVars>>
\* what the actions of the token manager never touch
beyondAuth == <<stateVars, cycleVars, raised, op, clientVars, requestVars, laterVars>>
\* what the actions of the rate limiter never touch
beyondClient == <<stateVars, cycleVars, raised, op, authVars, requestVars, laterVars>>
\* what the actions of request() never touch
beyondRequest == <<stateVars, cycleVars, raised, op, laterVars>>

(* ---- strings ---- *)
NoFile == <<>>
EmptyStr == <<>>
\* fullnames the listings draw from; the second and third need JSON escaping
Fullnames == { <<"a">>, <<"\"", "n">>, <<"\\", "\n">>, <<"n", "\\">> }
PostIds == {"p", "q"}
\* a listing item: item["data"]["name"] (EmptyStr when missing) and item["data"]["id"]
ListingItems == [name : Fullnames \cup {EmptyStr}, id : PostIds]

SeqsUpTo(S, n) == UNION { [1..k -> S] : k \in 0..n }

IsIn(x, s) == \E i \in 1..Len(s) : s[i] = x
NoDup(s) == \A i, j \in 1..Len(s) : i # j => s[i] # s[j]
IsSuffix(s, t) == Len(s) <= Len(t) /\ s = SubSeq(t, Len(t) - Len(s) + 1, Len(t))

(* ---- json.dump / json.load of the state file (storage.py) ---- *)
\* json's string escaping: quote, backslash and newline get a backslash escape
\* (mutation of EscapeChar: the backslash is written unescaped)
EscapeChar_NoBackslash(c) ==
    IF c = "\"" THEN <<"\\", "\"">>
    ELSE IF c = "\n" THEN <<"\\", "n">>
    ELSE <<c>>

EscapeChar(c) ==
    IF c = "\"" THEN <<"\\", "\"">>
    ELSE IF c = "\\" THEN <<"\\", "\\">>
    ELSE IF c = "\n" THEN <<"\\", "n">>
    ELSE <<c>>

RECURSIVE Escape(_)
Escape(s) == IF s = <<>> THEN <<>> ELSE EscapeChar(Head(s)) \o Escape(Tail(s))

json_dumps_str(s) == <<"\"">> \o Escape(s) \o <<"\"">>

UnescapeChar(c) == IF c = "n" THEN "\n" ELSE c

RECURSIVE Unescape(_)
Unescape(t) ==
    IF t = <<>> THEN <<>>
    ELSE IF Head(t) = "\\" /\ Len(t) >= 2
         THEN <<UnescapeChar(t[2])>> \o Unescape(SubSeq(t, 3, Len(t)))
         ELSE <<Head(t)>> \o Unescape(Tail(t))

json_loads_str(t) == Unescape(SubSeq(t, 2, Len(t) - 1))

DigitChars == <<"0", "1", "2", "3", "4", "5", "6", "7", "8", "9">>

RECURSIVE json_dumps_num(_)
json_dumps_num(n) ==
    IF n < 10 THEN <<DigitChars[n + 1]>>
    ELSE json_dumps_num(n \div 10) \o <<DigitChars[(n % 10) + 1]>>

DigitValue(c) == (CHOOSE i \in 1..10 : DigitChars[i] = c) - 1

RECURSIVE json_loads_num(_)
json_loads_num(t) ==
    IF Len(t) = 1 THEN DigitValue(t[1])
    ELSE 10 * json_loads_num(SubSeq(t, 1, Len(t) - 1)) + DigitValue(t[Len(t)])

\* the JSON text State.save writes: {"seen_fullnames": [...], "last_run_utc": n}
json_dump_state(seen, last) ==
    [ seen_fullnames |-> [i \in 1..Len(seen) |-> json_dumps_str(seen[i])],
      last_run_utc |-> json_dumps_num(last) ]

\* State._load: the pair (seen list, last run) a new State holds for a file
LoadedSeen(file) ==
    IF file = NoFile THEN <<>>
    ELSE [i \in 1..Len(file[1].seen_fullnames) |->
              json_loads_str(file[1].seen_fullnames[i])]

LoadedLastRun(file) ==
    IF file = NoFile THEN 0 ELSE json_loads_num(file[1].last_run_utc)

(* ---- State (storage.py) ---- *)
\* State.seen_fullnames property: set(self._seen_fullnames)
SeenSet(seen) == { seen[i] : i \in 1..Len(seen) }

\* (mutation of trim_seen: the slice keeps the head of the list)
trim_seen_KeepsOldest(seen) ==
    IF Len(seen) > max_seen_keep THEN SubSeq(seen, 1, max_seen_keep) ELSE seen

\* State._trim_seen
trim_seen(seen) ==
    IF Len(seen) > max_seen_keep
    THEN SubSeq(seen, (Len(seen) - max_seen_keep) + 1, Len(seen))
    ELSE seen

\* the loop of add_seen_batch, before the trim
RECURSIVE AppendNew(_, _)
AppendNew(seen, fullnames) ==
    IF fullnames = <<>> THEN seen
    ELSE AppendNew(IF IsIn(Head(fullnames), seen) THEN seen
                   ELSE Append(seen, Head(fullnames)),
                   Tail(fullnames))

\* State.add_seen_batch
add_seen_batch(seen, fullnames) == trim_seen(AppendNew(seen, fullnames))

\* (mutation of add_seen: the test for a fullname already in the list is missing)
add_seen_NoTest(seen, fullname) == trim_seen(Append(seen, fullname))

\* State.add_seen
add_seen(seen, fullname) ==
    IF IsIn(fullname, seen) THEN seen ELSE trim_seen(Append(seen, fullname))

(* ---- Fetcher (fetcher.py) ---- *)
\* (mutation of filter_new_posts: the test for a non-empty fullname is missing)
RECURSIVE filter_new_posts_NoEmptyTest(_, _)
filter_new_posts_NoEmptyTest(items, seen) ==
    IF items = <<>> THEN <<>>
    ELSE LET rest == filter_new_posts_NoEmptyTest(Tail(items), seen)
         IN IF Head(items).name \notin seen THEN <<Head(items)>> \o rest ELSE rest

\* Fetcher.filter_new_posts: the loop, item by item
RECURSIVE filter_new_posts(_, _)
filter_new_posts(items, seen) ==
    IF items = <<>> THEN <<>>
    ELSE LET item == Head(items)
             fullname == item.name
             rest == filter_new_posts(Tail(items), seen)
         IN IF fullname # EmptyStr /\ fullname \notin seen
            THEN <<item>> \o rest
            ELSE rest

(* ---- RedditAuth (reddit_auth.py) ---- *)
Callers == {"t1", "t2"}
NoHolder == "nobody"
NoToken == <<>>
NoCall == [calls |-> 0, waited |-> FALSE, checked_at |-> 0, cached |-> NoToken,
           after_invalidate |-> FALSE]
NoResult == [kind |-> "none"]

\* RedditAuth.__init__: no token, lock free; no call made yet
AuthIdle ==
    /\ token_info = NoToken
    /\ auth_lock = NoHolder
    /\ tpc = [c \in Callers |-> "idle"]
    /\ call = [c \in Callers |-> NoCall]
    /\ result = [c \in Callers |-> NoResult]
    /\ exchanges = 0
    /\ invalidated = [pending |-> FALSE, token |-> NoToken]

\* answers of the token endpoint to the POST of _request_token: an HTTP response
\* (status, kind of body, expires_in of a token body) or a transport failure (exc)
ExpiresInValues == {100, 400}
HttpResponse(status, body, expires_in) ==
    [status |-> status, body |-> body, expires_in |-> expires_in, exc |-> "none"]
TransportFailure(exc) == [status |-> 0, body |-> "none", expires_in |-> 0, exc |-> exc]
TokenResponses ==
    { HttpResponse(200, "token", e) : e \in ExpiresInValues }
    \cup { HttpResponse(200, b, 0) : b \in {"token_no_expires_in", "no_access_token", "not_json"} }
    \cup { HttpResponse(400, b, 0) :
              b \in {"error_invalid_grant", "error_other", "not_json"} }
    \cup { HttpResponse(st, "none", 0) : st \in {401, 503} }
    \cup { TransportFailure(e) : e \in {"ConnectionError"} }

\* (mutation of IsRequestException: the except clause catches nothing)
IsRequestException_None(exc) == FALSE

\* except requests.exceptions.RequestException (line 131): the classes it catches;
\* requests >= 2.31 (setup.py) makes response.json()'s JSONDecodeError one of them
IsRequestException(exc) ==
    exc \in {"ConnectionError", "Timeout", "HTTPError", "JSONDecodeError"}

\* the body of the try block of _request_token (lines 82-129) at time t
TryRequestToken(resp, t, serial) ==
    IF resp.exc # "none" THEN [ok |-> FALSE, err |-> resp.exc]
    ELSE IF resp.status = 401 THEN [ok |-> FALSE, err |-> "AuthError"]
    ELSE IF resp.status = 400
         THEN IF resp.body = "not_json" THEN [ok |-> FALSE, err |-> "JSONDecodeError"]
              ELSE [ok |-> FALSE, err |-> "AuthError"]
    ELSE IF resp.status >= 400 THEN [ok |-> FALSE, err |-> "HTTPError"]
    ELSE IF resp.body = "not_json" THEN [ok |-> FALSE, err |-> "JSONDecodeError"]
    ELSE IF resp.body = "no_access_token" THEN [ok |-> FALSE, err |-> "KeyError"]
    ELSE LET expires_in == IF resp.body = "token_no_expires_in" THEN DefaultExpiresIn
                           ELSE resp.expires_in
         IN [ok |-> TRUE,
             token |-> [access_token |-> serial, expires_at |-> t + expires_in]]

\* RedditAuth._request_token: the try block, then the except clause
request_token(resp, t, serial) ==
    LET out == TryRequestToken(resp, t, serial)
    IN IF ~out.ok /\ IsRequestException(out.err)
       THEN [ok |-> FALSE, err |-> "AuthError"]
       ELSE out

\* (mutation of TokenIsFresh: the test allows a token with exactly the buffer left)
TokenIsFresh_AtBuffer(token, t) == t <= token.expires_at - EXPIRY_BUFFER_SEC

\* (mutation of TokenIsFresh: the buffer is not subtracted)
TokenIsFresh_NoBuffer(token, t) == t < token.expires_at

\* get_access_token line 152: time.time() < expires_at - EXPIRY_BUFFER_SEC
TokenIsFresh(token, t) == t < token.expires_at - EXPIRY_BUFFER_SEC

\* lines 150-154: a cached token exists and passes the test
CacheHit(t) == token_info # NoToken /\ TokenIsFresh(token_info[1], t)

\* (mutation of LockFree: the lock is not taken into account)
LockFree_Always == TRUE

\* with self._lock: the lock can be acquired
LockFree == auth_lock = NoHolder

\* (mutation of CacheAfterExchange: a failed exchange empties the cache)
CacheAfterExchange_Emptied(out) == IF out.ok THEN <<out.token>> ELSE NoToken

\* get_access_token line 159: self._token_info = self._request_token() -- the
\* assignment is made when _request_token returns, not when it raises
CacheAfterExchange(out) == IF out.ok THEN <<out.token>> ELSE token_info

\* (mutation of InvalidatedCache: the cache is left as it is)
InvalidatedCache_Kept == token_info

\* invalidate_token line 170: self._token_info = None
InvalidatedCache == NoToken

(* ---- RedditClient: the rate limiter (reddit_client.py) ---- *)
None == <<>>
Some(x) == <<x>>

\* RedditClient.__init__ lines 66-73, with header throttling enabled
ClientIdle ==
    /\ respect_headers = TRUE
    /\ last_request_time = 0
    /\ request_times = <<>>
    /\ remaining_requests = None
    /\ reset_time = None
    /\ released = <<>>

\* time.sleep(d) followed by now = time.time(): at least d later, late by `late`
AfterSleep(t, d, late) == t + d + late

\* (mutation of AfterSafetyInterval: now is not read again after the sleep)
AfterSafetyInterval_StaleNow(t, late) == t

\* lines 104-110: the safety interval; the value of now after it
AfterSafetyInterval(t, late) ==
    LET elapsed_ms == t - last_request_time
    IN IF elapsed_ms < safety_min_interval_ms
       THEN AfterSleep(t, safety_min_interval_ms - elapsed_ms, late)
       ELSE t

\* lines 114-115 / 126-127: the request times younger than one minute
InWindow(times, t) == SelectSeq(times, LAMBDA x : x > t - WindowMs)

\* (mutation of AfterQpm: the full window is noticed but not waited for)
AfterQpm_NoSleep(t, late) == t

\* lines 112-127: the QPM limit; the value of now after it
AfterQpm(t, late) ==
    LET times == InWindow(request_times, t)
    IN IF Len(times) >= max_qpm /\ (times[1] + WindowMs) - t > 0
       THEN AfterSleep(t, (times[1] + WindowMs) - t, late)
       ELSE t

\* lines 115 / 127: the list after the QPM step that started at t and ended at t2
TimesAfterQpm(t, t2) ==
    LET times == InWindow(request_times, t)
    IN IF t2 # t THEN InWindow(times, t2) ELSE times

\* (mutation of AfterServerQuota: the stored quota is not looked at)
AfterServerQuota_Ignored(t, late) == t

\* lines 129-139: the server quota; the value of now after it
AfterServerQuota(t, late) ==
    IF /\ respect_headers
       /\ remaining_requests # None
       /\ remaining_requests[1] <= 1
       /\ reset_time # None
       /\ reset_time[1] - t > 0
    THEN AfterSleep(t, reset_time[1] - t, late)
    ELSE t

\* the values of the X-Ratelimit-Remaining / X-Ratelimit-Reset headers of a response:
\* absent, a number (its int(float(...)) value), or text that float() rejects
HeaderValues == { [kind |-> "absent", val |-> 0], [kind |-> "text", val |-> 0] }
                \cup { [kind |-> "number", val |-> n] : n \in {1, 50} }

\* (mutation of HeaderUpdate: a header that is absent or not a number clears the value)
HeaderUpdate_Clears(old, header, value) ==
    IF header.kind = "number" THEN Some(value) ELSE None

\* lines 155-166: int(float(header)) stored unless absent or ValueError
HeaderUpdate(old, header, value) ==
    IF header.kind = "number" THEN Some(value) ELSE old

(* ---- RedditClient.request (reddit_client.py) ---- *)
\* no request() call in progress, none made yet
NoOutcome == [kind |-> "none", err |-> "none", status |-> 0]
NoStats == [sends |-> 0, unauthorized |-> 0, invalidations |-> 0, backoffs |-> 0]
RequestIdle ==
    /\ rpc = "idle"
    /\ attempt = 0
    /\ token_refreshed = FALSE
    /\ headers = None
    /\ outcome = NoOutcome
    /\ events = <<>>
    /\ stats = NoStats

(* ---- the parts of the program the specifications above leave at rest ---- *)
\* the main thread is in no time.sleep
NoSleep == [kind |-> "none", from |-> 0, until |-> 0]
NoRun == [command |-> "none", validated |-> FALSE, validations |-> 0, cycles |-> 0,
          fetches |-> 0, writes |-> 0, saves |-> 0, sleeps |-> 0]
\* no command started: cli.py line 27, _shutdown_requested = False
RunIdle ==
    /\ wpc = "idle"
    /\ shutdown_requested = FALSE
    /\ shutdown_at = <<>>
    /\ sleeping = NoSleep
    /\ poll_left = 0
    /\ exit_code = <<>>
    /\ did = NoRun
PublishIdle ==
    /\ files = <<>>
    /\ ppc = "idle"
    /\ job = <<>>
FnIdle ==
    /\ fn_in = <<>>
    /\ fn_out = <<>>
ThreadsIdle ==
    /\ rl_lock = "nobody"
    /\ lpc = <<>>
    /\ local = <<>>
LaterIdle ==
    /\ RunIdle
    /\ PublishIdle
    /\ FnIdle
    /\ ThreadsIdle

\* the Retry-After header of a response, in the forms HTTP allows: absent (or empty),
\* a number of seconds, which float() accepts, or an HTTP date, which float() rejects
\* (val: the delay in seconds the header asks for)
RetryAfterValues ==
    { [kind |-> "absent", val |-> 0], [kind |-> "date", val |-> 5],
      [kind |-> "number", val |-> 2] }
NoRetryAfter == [kind |-> "absent", val |-> 0]

\* the X-Ratelimit-Remaining / X-Ratelimit-Reset headers of a response of the API
QuotaHeaders ==
    { [remaining |-> h, reset |-> h] :
        h \in { [kind |-> "absent", val |-> 0], [kind |-> "number", val |-> 1] } }
\* both headers present with values float() rejects
UnparsedQuota == [remaining |-> [kind |-> "text", val |-> 0],
                  reset |-> [kind |-> "text", val |-> 0]]

\* what self._session.request gives: a response (status, headers, kind of body) or a
\* transport exception
ApiResponse(status, retry_after, quota, body) ==
    [status |-> status, retry_after |-> retry_after, quota |-> quota, body |-> body,
     exc |-> "none"]
ApiFailure(exc) ==
    [status |-> 0, retry_after |-> NoRetryAfter,
     quota |-> [remaining |-> [kind |-> "absent", val |-> 0],
                reset |-> [kind |-> "absent", val |-> 0]],
     body |-> "none", exc |-> exc]
ApiResponses ==
    { ApiResponse(200, NoRetryAfter, q, b) : q \in QuotaHeaders, b \in {"json", "not_json"} }
    \cup { ApiResponse(st, NoRetryAfter, q, "none") :
              st \in {400, 401, 403, 404, 500, 502, 503, 504}, q \in QuotaHeaders }
    \cup { ApiResponse(429, ra, q, "none") : ra \in RetryAfterValues, q \in QuotaHeaders }
    \cup { ApiResponse(st, NoRetryAfter, UnparsedQuota, "none") : st \in {404, 503} }
    \cup { ApiFailure(e) : e \in {"Timeout", "ConnectionError"} }

RetryableStatus == {429, 500, 502, 503, 504}

\* (mutation of _should_retry: the budget is two retries larger)
should_retry_TwoMore(status_code, k) ==
    IF k >= retries + 2 THEN FALSE ELSE status_code \in RetryableStatus

\* (mutation of _should_retry: the budget test lets one more retry through)
should_retry_OneMore(status_code, k) ==
    IF k > retries THEN FALSE ELSE status_code \in RetryableStatus

\* RedditClient._should_retry
should_retry(status_code, k) ==
    IF k >= retries THEN FALSE ELSE status_code \in RetryableStatus

RECURSIVE Pow2(_)
Pow2(k) == IF k = 0 THEN 1 ELSE 2 * Pow2(k - 1)

\* (mutation of _calculate_backoff: the Retry-After header is not looked at)
calculate_backoff_NoRetryAfter(k, response) == 1000 * backoff_sec * Pow2(k)

\* RedditClient._calculate_backoff, in milliseconds; response.exc # "none" stands for
\* the call without a response (lines 311, 323)
calculate_backoff(k, response) ==
    IF response.exc = "none" /\ response.retry_after.kind = "number"
    THEN 1000 * response.retry_after.val
    ELSE 1000 * backoff_sec * Pow2(k)

\* time.sleep(backoff); attempt += 1; continue -- time.sleep raises ValueError on a
\* negative length
BackoffRetry(k, response) ==
    LET d == calculate_backoff(k, response)
    IN IF d < 0 THEN [act |-> "raise", err |-> "ValueError", status |-> 0, sleep |-> d]
       ELSE [act |-> "retry", err |-> "none", status |-> 0, sleep |-> d]

Raise(err, status) == [act |-> "raise", err |-> err, status |-> status, sleep |-> 0]

\* (mutation of OnTransportFailure: the exception is not retried)
OnTransportFailure_NoRetry(k, response) == Raise("APIError", 0)

\* lines 309-331: except Timeout / except ConnectionError
OnTransportFailure(k, response) ==
    IF k < retries THEN BackoffRetry(k, response) ELSE Raise("APIError", 0)

\* (mutation of OnUnauthorized: a 401 is handled as a retryable status)
OnUnauthorized_CountsAsRetry(k, refreshed) ==
    IF k < retries
    THEN [act |-> "retry", err |-> "none", status |-> 0, sleep |-> 1000 * backoff_sec * Pow2(k)]
    ELSE Raise("AuthError", 0)

\* lines 255-263: status 401
OnUnauthorized(k, refreshed) ==
    IF ~refreshed
    THEN [act |-> "refresh", err |-> "none", status |-> 0, sleep |-> 0]
    ELSE Raise("AuthError", 0)

\* (mutation of OnForbiddenOrNotFound: the status is tested after the retryable ones
\* and retried like them)
OnForbiddenOrNotFound_Retried(k, response) ==
    IF k < retries THEN BackoffRetry(k, response)
    ELSE Raise("APIError", response.status)

\* lines 265-275: status 403 and status 404
OnForbiddenOrNotFound(k, response) == Raise("APIError", response.status)

\* lines 252-331: what request() does with the answer to one send, given its locals
ResponseAction(response, k, refreshed) ==
    IF response.exc # "none" THEN OnTransportFailure(k, response)
    ELSE IF response.status = 200
    THEN IF response.body = "json"
         THEN [act |-> "return", err |-> "none", status |-> 200, sleep |-> 0]
         ELSE Raise("JSONDecodeError", 0)
    ELSE IF response.status = 401 THEN OnUnauthorized(k, refreshed)
    ELSE IF response.status \in {403, 404} THEN OnForbiddenOrNotFound(k, response)
    ELSE IF response.status = 429
    THEN IF should_retry(response.status, k) THEN BackoffRetry(k, response)
         ELSE Raise("RateLimitExceeded", 0)
    ELSE IF should_retry(response.status, k) THEN BackoffRetry(k, response)
    ELSE Raise("APIError", response.status)

\* (mutation of AuthHeader: the header is built once, before the loop)
AuthHeader_BuiltOnce(token) == IF headers # None THEN headers ELSE Some(token.access_token)

\* get_auth_header: the header carries the token get_access_token returned
AuthHeader(token) == Some(token.access_token)

\* the token endpoint's answers drawn while a request() call refreshes the token
RefreshResponses ==
    { HttpResponse(200, "token", 100), HttpResponse(200, "token_no_expires_in", 0),
      HttpResponse(401, "none", 0), TransportFailure("ConnectionError") }

\* time.time() in seconds, as get_access_token reads it, from the millisecond clock
Seconds(t) == t \div 1000

\* one entry of the history of a request() call
Event(e, at, token, k, d, response) ==
    [e |-> e, at |-> at, token |-> token, k |-> k, d |-> d, response |-> response,
     x |-> exchanges]
NoResponse == ApiFailure("none")
\* the end of the pass before: its send and the invalidation or sleep that followed
EndOfLastPass(ev) == IF Len(ev) >= 2 THEN SubSeq(ev, Len(ev) - 1, Len(ev)) ELSE <<>>

(***************************************************************************)
(* Specification of the pure filter: the inputs are drawn in Init and the  *)
(* one action applies filter_new_posts to them.                            *)
(***************************************************************************)
IdleCycle ==
    /\ listing_items = <<>>
    /\ new_posts = <<>>
    /\ posts_file = <<>>
    /\ pc = "idle"

FreshState ==
    /\ seen_fullnames = <<>>
    /\ last_run_utc = 0
    /\ state_file = NoFile
    /\ inserted = <<>>
    /\ saved = <<>>

InitFilter ==
    /\ listing_items \in SeqsUpTo(ListingItems, MaxListing)
    /\ seen_fullnames \in { s \in SeqsUpTo(Fullnames, max_seen_keep) : NoDup(s) }
    /\ new_posts = <<>>
    /\ posts_file = <<>>
    /\ pc = "call"
    /\ last_run_utc = 0
    /\ state_file = NoFile
    /\ inserted = seen_fullnames
    /\ saved = <<>>
    /\ raised = "none"
    /\ op = "init"
    /\ now = 0
    /\ AuthIdle
    /\ RequestIdle
    /\ LaterIdle
    /\ ClientIdle

\* process_new_posts, line 276: new_items = self.filter_new_posts(listing_items, seen)
FilterNewPosts ==
    /\ pc = "call"
    /\ new_posts' = filter_new_posts(listing_items, SeenSet(seen_fullnames))
    /\ pc' = "return"
    /\ op' = "filter_new_posts"
    /\ UNCHANGED <<stateVars, listing_items, posts_file, raised, now, beyondStore>>

NextFilter == FilterNewPosts

SpecFilter == InitFilter /\ [][NextFilter]_vars

\* positions of the listing whose item has a fullname that is not in the seen set
KeptPositions ==
    { i \in 1..Len(listing_items) :
        /\ listing_items[i].name # EmptyStr
        /\ listing_items[i].name \notin SeenSet(seen_fullnames) }

NthKept(k) ==
    CHOOSE i \in KeptPositions : Cardinality({ j \in KeptPositions : j <= i }) = k

\* C2: filter_new_posts returns exactly the items of the listing whose fullname is
\* non-empty and not in the seen set, each once and in listing order.
C2_FilterExactSubsequence ==
    pc = "return" =>
        /\ Len(new_posts) = Cardinality(KeptPositions)
        /\ \A k \in 1..Len(new_posts) : new_posts[k] = listing_items[NthKept(k)]

\* a listing of three items: one seen, one without fullname, one new
C2_Witness ==
    /\ pc = "return"
    /\ Len(listing_items) = 3
    /\ Len(new_posts) = 1
    /\ \E i \in 1..3 : listing_items[i].name = EmptyStr
    /\ \E i \in 1..3 : listing_items[i].name \in SeenSet(seen_fullnames)

(***************************************************************************)
(* Specification of one State object and its file: add_seen,               *)
(* add_seen_batch, update_last_run, save and the load of a new State.      *)
(***************************************************************************)
InitState ==
    /\ FreshState
    /\ IdleCycle
    /\ raised = "none"
    /\ op = "init"
    /\ now = 0
    /\ AuthIdle
    /\ RequestIdle
    /\ LaterIdle
    /\ ClientIdle

\* the entries a call appends to the list, in order (before the trim)
Appended(seen, fullnames) ==
    LET grown == AppendNew(seen, fullnames)
    IN SubSeq(grown, Len(seen) + 1, Len(grown))

AddSeen(fullname) ==
    /\ Len(inserted) < MaxInserted
    /\ seen_fullnames' = add_seen(seen_fullnames, fullname)
    /\ inserted' = inserted \o Appended(seen_fullnames, <<fullname>>)
    /\ op' = "add_seen"
    /\ raised' = "none"
    /\ UNCHANGED <<last_run_utc, state_file, saved, cycleVars, now, beyondStore>>

AddSeenBatch(fullnames) ==
    /\ Len(inserted) < MaxInserted
    /\ seen_fullnames' = add_seen_batch(seen_fullnames, fullnames)
    /\ inserted' = inserted \o Appended(seen_fullnames, fullnames)
    /\ op' = "add_seen_batch"
    /\ raised' = "none"
    /\ UNCHANGED <<last_run_utc, state_file, saved, cycleVars, now, beyondStore>>

\* State.update_last_run
UpdateLastRun ==
    /\ last_run_utc' = now
    /\ op' = "update_last_run"
    /\ raised' = "none"
    /\ UNCHANGED <<seen_fullnames, state_file, inserted, saved, cycleVars, now, beyondStore>>

\* State.save: the temp file is written and renamed over the state file
SaveOk ==
    /\ state_file' = <<json_dump_state(seen_fullnames, last_run_utc)>>
    /\ saved' = <<[seen |-> seen_fullnames, last |-> last_run_utc]>>
    /\ op' = "save"
    /\ raised' = "none"
    /\ UNCHANGED <<seen_fullnames, last_run_utc, inserted, cycleVars, now, beyondStore>>

\* State.save: an I/O failure before the rename raises StorageError
SaveFails ==
    /\ op' = "save"
    /\ raised' = "StorageError"
    /\ UNCHANGED <<stateVars, cycleVars, now, beyondStore>>

\* State.__init__ / _load: a new State object reads the file
Load ==
    /\ seen_fullnames' = LoadedSeen(state_file)
    /\ last_run_utc' = LoadedLastRun(state_file)
    /\ inserted' = LoadedSeen(state_file)
    /\ op' = "load"
    /\ raised' = "none"
    /\ UNCHANGED <<state_file, saved, cycleVars, now, beyondStore>>

Tick ==
    /\ now + 7 <= MaxTime
    /\ now' = now + 7
    /\ UNCHANGED <<stateVars, cycleVars, raised, op, beyondStore>>

NextState ==
    \/ \E fullname \in Fullnames : AddSeen(fullname)
    \/ \E fullnames \in SeqsUpTo(Fullnames, MaxBatch) : AddSeenBatch(fullnames)
    \/ UpdateLastRun
    \/ SaveOk
    \/ SaveFails
    \/ Load
    \/ Tick

SpecState == InitState /\ [][NextState]_vars

\* C3: the seen list never holds more than max_seen_keep entries and is always the
\* last max_seen_keep entries (all of them when fewer) of the insertion history.
C3_SeenBoundedFifo ==
    /\ Len(seen_fullnames) <= max_seen_keep
    /\ IsSuffix(seen_fullnames, inserted)
    /\ Len(inserted) >= max_seen_keep => Len(seen_fullnames) = max_seen_keep
    /\ Len(inserted) < max_seen_keep => seen_fullnames = inserted

\* an add that evicted: more was inserted than the list keeps
C3_Witness ==
    /\ op \in {"add_seen", "add_seen_batch"}
    /\ Len(inserted) > max_seen_keep
    /\ Len(seen_fullnames) = max_seen_keep

\* C4: a State loaded from the file a save wrote holds the saved seen list, in the
\* saved order, and the saved last_run_utc.
C4_SaveLoadRoundTrip ==
    (op = "load" /\ state_file # NoFile) =>
        /\ seen_fullnames = saved[1].seen
        /\ last_run_utc = saved[1].last

\* a load of a file holding two fullnames, one with a backslash, and a two-digit time
C4_Witness ==
    /\ op = "load"
    /\ Len(seen_fullnames) = 2
    /\ \E i \in 1..2 : IsIn("\\", seen_fullnames[i])
    /\ last_run_utc >= 10

(***************************************************************************)
(* The poll loop of cmd_run: run_once step by step, the failures that end  *)
(* a cycle part-way, shutdown, and the start of a new process that loads   *)
(* the state file.                                                         *)
(***************************************************************************)
\* fullnames and items of the listings the poll loop fetches
CycleFullnames == { <<"a">>, <<"\"", "n">>, <<"\\", "\n">> }
CycleItems ==
    [name : CycleFullnames \cup {EmptyStr}, id : {"p"}, author : {"u"}]
    \cup { [name |-> <<"a">>, id |-> "p", author |-> "[deleted]"] }

\* errors run_once can raise, and those the loop of cmd_run catches (cli.py 300-308)
RequestErrors == {"AuthError", "APIError", "RateLimitExceeded"}
CaughtByLoop == {"AuthError", "APIError", "StorageError"}

\* where the loop is after a cycle raised err: sleeping until the next cycle, or out
\* of the loop through the outer handler (return 1)
AfterError(err) == IF err \in CaughtByLoop THEN "idle" ELSE "exited"

\* dict.get(key, default)
Get(data, key, default) == IF key \in DOMAIN data THEN data[key] ELSE default

\* "|".join(hints)
RECURSIVE Join(_)
Join(hints) ==
    IF Len(hints) = 1 THEN hints[1] ELSE hints[1] \o "|" \o Join(Tail(hints))

\* (mutation of detect_deleted_removed: the test of the selftext for "[removed]" is
\* missing)
detect_deleted_removed_NoTextRemoved(data) ==
    LET author == Get(data, "author", "")
        selftext == Get(data, "selftext", "")
        category == Get(data, "removed_by_category", "")
        hints == (IF author = "[deleted]" THEN <<"author_deleted">> ELSE <<>>)
                 \o (IF selftext = "[deleted]" THEN <<"text_deleted">> ELSE <<>>)
                 \o (IF category # "" THEN <<"removed_by_" \o category>> ELSE <<>>)
    IN  IF hints # <<>>
        THEN [is_removed |-> TRUE, hint |-> Some(Join(hints))]
        ELSE [is_removed |-> FALSE, hint |-> None]

\* detect_deleted_removed: (is_deleted_or_removed, removed_hint); a missing or null
\* removed_by_category is the empty string here, falsy like it
detect_deleted_removed(data) ==
    LET author == Get(data, "author", "")
        selftext == Get(data, "selftext", "")
        category == Get(data, "removed_by_category", "")
        hints == (IF author = "[deleted]" THEN <<"author_deleted">> ELSE <<>>)
                 \o (IF selftext = "[deleted]" THEN <<"text_deleted">> ELSE <<>>)
                 \o (IF selftext = "[removed]" THEN <<"text_removed">> ELSE <<>>)
                 \o (IF category # "" THEN <<"removed_by_" \o category>> ELSE <<>>)
    IN  IF hints # <<>>
        THEN [is_removed |-> TRUE, hint |-> Some(Join(hints))]
        ELSE [is_removed |-> FALSE, hint |-> None]

\* extract_post_data: the PostData of a listing item (fields the model follows)
extract_post_data(item) ==
    [fullname |-> item.name, id |-> item.id,
     is_deleted_or_removed |-> detect_deleted_removed(item).is_removed,
     removed_hint |-> detect_deleted_removed(item).hint]

\* CompliancePurger._purge_file lines 257-274: the records kept, and purged_count
KeptByPurge(records) == SelectSeq(records, LAMBDA r : ~r.is_deleted_or_removed)
PurgedCount(records) == Len(records) - Len(KeptByPurge(records))

\* the operations of a cycle that ended in an I/O failure on a file
IoFailures == {"write_posts_failed", "save_failed", "purge_failed"}

\* Fetcher.process_new_posts: filter, then one PostData per surviving item
process_new_posts(items, seen) ==
    LET new_items == filter_new_posts(items, seen)
    IN [i \in 1..Len(new_items) |-> extract_post_data(new_items[i])]

\* run_once line 156: new_fullnames = [post.fullname for post in new_posts]
FullnamesOf(posts) == [i \in 1..Len(posts) |-> posts[i].fullname]

Init ==
    /\ FreshState
    /\ IdleCycle
    /\ raised = "none"
    /\ op = "init"
    /\ now = 0
    /\ AuthIdle
    /\ RequestIdle
    /\ LaterIdle
    /\ ClientIdle

\* run_once line 141: fetcher.fetch_listing() returns the listing
FetchListing(items) ==
    /\ pc = "idle"
    /\ listing_items' = items
    /\ new_posts' = <<>>
    /\ pc' = "fetched"
    /\ op' = "fetch_listing"
    /\ raised' = "none"
    /\ UNCHANGED <<stateVars, posts_file, now, beyondStore>>

\* run_once line 141: fetcher.fetch_listing() raises; the cycle ends there
FetchListingFails(err) ==
    /\ pc = "idle"
    /\ pc' = AfterError(err)
    /\ op' = "fetch_listing"
    /\ raised' = err
    /\ listing_items' = <<>>
    /\ new_posts' = <<>>
    /\ UNCHANGED <<stateVars, posts_file, now, beyondStore>>

\* run_once line 144: process_new_posts returns the new posts
ProcessNewPosts ==
    /\ pc = "fetched"
    /\ new_posts' = process_new_posts(listing_items, SeenSet(seen_fullnames))
    /\ pc' = IF new_posts' = <<>> THEN "nonew" ELSE "processed"
    /\ op' = "process_new_posts"
    /\ UNCHANGED <<stateVars, listing_items, posts_file, raised, now, beyondStore>>

\* (mutation of ProcessNewPostsFails: the items are marked seen before the raise)
ProcessNewPostsFails_Marks(err) ==
    /\ pc = "fetched"
    /\ filter_new_posts(listing_items, SeenSet(seen_fullnames)) # <<>>
    /\ seen_fullnames' =
          add_seen_batch(seen_fullnames,
                         FullnamesOf(process_new_posts(listing_items,
                                                       SeenSet(seen_fullnames))))
    /\ pc' = AfterError(err)
    /\ op' = "process_new_posts"
    /\ raised' = err
    /\ UNCHANGED <<last_run_utc, state_file, inserted, saved, listing_items, new_posts,
                   posts_file, now, beyondStore>>

\* run_once line 144: the batch-detail fetch inside process_new_posts raises
ProcessNewPostsFails(err) ==
    /\ pc = "fetched"
    /\ filter_new_posts(listing_items, SeenSet(seen_fullnames)) # <<>>
    /\ pc' = AfterError(err)
    /\ op' = "process_new_posts"
    /\ raised' = err
    /\ UNCHANGED <<stateVars, listing_items, new_posts, posts_file, now, beyondStore>>

\* run_once lines 146-148: no new post, state.update_last_run()
NoNewPosts ==
    /\ pc = "nonew"
    /\ last_run_utc' = now
    /\ pc' = "marked"
    /\ op' = "update_last_run"
    /\ UNCHANGED <<seen_fullnames, state_file, inserted, saved, listing_items,
                   new_posts, posts_file, raised, now, beyondStore>>

\* run_once line 153: writer.write_posts(new_posts) appends one record per post
WritePosts ==
    /\ pc = "processed"
    /\ Len(posts_file) + Len(new_posts) <= MaxOutput
    /\ posts_file' = posts_file \o new_posts
    /\ pc' = "written"
    /\ op' = "write_posts"
    /\ UNCHANGED <<stateVars, listing_items, new_posts, raised, now, beyondStore>>

\* PostWriter.write_posts: an I/O failure after k records reached the file
WritePostsFails(k) ==
    /\ pc = "processed"
    /\ Len(posts_file) + Len(new_posts) <= MaxOutput
    /\ k < Len(new_posts)
    /\ posts_file' = posts_file \o SubSeq(new_posts, 1, k)
    /\ pc' = AfterError("StorageError")
    /\ op' = "write_posts_failed"
    /\ raised' = "StorageError"
    /\ UNCHANGED <<stateVars, listing_items, new_posts, now, beyondStore>>

\* (mutation of MarkSeen: the fullnames are marked before write_posts is called)
MarkSeen_BeforeWrite ==
    /\ pc = "processed"
    /\ seen_fullnames' = add_seen_batch(seen_fullnames, FullnamesOf(new_posts))
    /\ last_run_utc' = now
    /\ pc' = "marked"
    /\ op' = "add_seen_batch"
    /\ UNCHANGED <<state_file, inserted, saved, listing_items, new_posts,
                   posts_file, raised, now, beyondStore>>

\* run_once lines 156-158: state.add_seen_batch(new_fullnames); update_last_run()
MarkSeen ==
    /\ pc = "written"
    /\ seen_fullnames' = add_seen_batch(seen_fullnames, FullnamesOf(new_posts))
    /\ last_run_utc' = now
    /\ pc' = "marked"
    /\ op' = "add_seen_batch"
    /\ UNCHANGED <<state_file, inserted, saved, listing_items, new_posts,
                   posts_file, raised, now, beyondStore>>

\* run_once lines 149 / 159: state.save() succeeds; the cycle is complete
SaveState ==
    /\ pc = "marked"
    /\ state_file' = <<json_dump_state(seen_fullnames, last_run_utc)>>
    /\ saved' = <<[seen |-> seen_fullnames, last |-> last_run_utc]>>
    /\ pc' = "saved"
    /\ op' = "save"
    /\ UNCHANGED <<seen_fullnames, last_run_utc, inserted, listing_items,
                   new_posts, posts_file, raised, now, beyondStore>>

\* run_once lines 149 / 159: state.save() raises StorageError
SaveStateFails ==
    /\ pc = "marked"
    /\ pc' = AfterError("StorageError")
    /\ op' = "save_failed"
    /\ raised' = "StorageError"
    /\ UNCHANGED <<stateVars, listing_items, new_posts, posts_file, now, beyondStore>>

\* cmd_run lines 291-296: the purge is disabled or not due yet
PurgeNotDue ==
    /\ pc = "saved"
    /\ pc' = "idle"
    /\ op' = "no_purge"
    /\ UNCHANGED <<stateVars, listing_items, new_posts, posts_file, raised, now,
                   beyondStore>>

\* cmd_run lines 294-296, CompliancePurger.purge: the flagged records are dropped
\* from the output files (a file without flagged records is not rewritten)
Purge ==
    /\ pc = "saved"
    /\ posts_file' = KeptByPurge(posts_file)
    /\ pc' = "idle"
    /\ op' = "purge"
    /\ UNCHANGED <<stateVars, listing_items, new_posts, raised, now, beyondStore>>

\* _purge_file lines 276-286: writing the temporary file or renaming it over the
\* output file fails; the except clause logs the error and purged_count is returned
PurgeFails(step) ==
    /\ pc = "saved"
    /\ PurgedCount(posts_file) > 0
    /\ step \in {"write", "replace"}
    /\ pc' = "idle"
    /\ op' = "purge_failed"
    /\ UNCHANGED <<stateVars, listing_items, new_posts, posts_file, raised, now,
                   beyondStore>>

\* cmd_run lines 318-326: shutdown was requested; final state.save(), return 0
Shutdown ==
    /\ pc = "idle"
    /\ state_file' = <<json_dump_state(seen_fullnames, last_run_utc)>>
    /\ saved' = <<[seen |-> seen_fullnames, last |-> last_run_utc]>>
    /\ pc' = "exited"
    /\ op' = "shutdown"
    /\ raised' = "none"
    /\ UNCHANGED <<seen_fullnames, last_run_utc, inserted, listing_items,
                   new_posts, posts_file, now, beyondStore>>

\* cmd_run lines 264-268 in a new process (after an exit or a kill at any point):
\* State(...) loads the state file
Restart ==
    /\ seen_fullnames' = LoadedSeen(state_file)
    /\ last_run_utc' = LoadedLastRun(state_file)
    /\ listing_items' = <<>>
    /\ new_posts' = <<>>
    /\ pc' = "idle"
    /\ op' = "restart"
    /\ raised' = "none"
    /\ UNCHANGED <<state_file, inserted, saved, posts_file, now, beyondStore>>

\* time passes while the loop sleeps between two cycles (cli.py 311-316)
Sleep ==
    /\ pc = "idle"
    /\ now + 7 <= MaxCycleTime
    /\ now' = now + 7
    /\ UNCHANGED <<stateVars, cycleVars, raised, op, beyondStore>>

Next ==
    \/ \E items \in SeqsUpTo(CycleItems, MaxCycleListing) : FetchListing(items)
    \/ \E err \in RequestErrors : FetchListingFails(err)
    \/ ProcessNewPosts
    \/ \E err \in RequestErrors : ProcessNewPostsFails(err)
    \/ NoNewPosts
    \/ WritePosts
    \/ \E k \in 0..MaxCycleListing : WritePostsFails(k)
    \/ MarkSeen
    \/ SaveState
    \/ SaveStateFails
    \/ PurgeNotDue
    \/ Purge
    \/ \E step \in {"write", "replace"} : PurgeFails(step)
    \/ Shutdown
    \/ Restart
    \/ Sleep

Spec == Init /\ [][Next]_vars

\* number of records of the output files that carry fullname fn
RecordsOf(fn) == Cardinality({ i \in 1..Len(posts_file) : posts_file[i].fullname = fn })

\* C1: no fullname has more than one record in the output files.
C1_AtMostOnce == \A fn \in CycleFullnames : RecordsOf(fn) <= 1

(***************************************************************************)
(* Specification of the token manager: several callers of                  *)
(* get_access_token and invalidate_token on one RedditAuth, the answers of *)
(* the token endpoint, and the clock.                                      *)
(***************************************************************************)
InitAuth ==
    /\ FreshState
    /\ IdleCycle
    /\ raised = "none"
    /\ op = "init"
    /\ now = 0
    /\ AuthIdle
    /\ RequestIdle
    /\ LaterIdle
    /\ ClientIdle

\* a caller enters get_access_token and waits for the lock
CallGetAccessToken(c) ==
    /\ tpc[c] = "idle"
    /\ tpc' = [tpc EXCEPT ![c] = "waiting"]
    /\ call' = [call EXCEPT ![c] = NoCall]
    /\ result' = [result EXCEPT ![c] = NoResult]
    /\ UNCHANGED <<token_info, auth_lock, exchanges, invalidated, now, beyondAuth>>

\* lines 148-154: the lock is taken, the cached token passes the test and is returned
UseCachedToken(c) ==
    /\ tpc[c] = "waiting"
    /\ LockFree
    /\ CacheHit(now)
    /\ result' = [result EXCEPT ![c] =
                     [kind |-> "token", token |-> token_info[1],
                      validity |-> token_info[1].expires_at - now, calls |-> 0,
                      checked_at |-> now, cached |-> token_info,
                      waited |-> call[c].waited,
                      after_invalidate |-> invalidated.pending]]
    /\ tpc' = [tpc EXCEPT ![c] = "idle"]
    /\ invalidated' = [invalidated EXCEPT !.pending = FALSE]
    /\ UNCHANGED <<token_info, auth_lock, call, exchanges, now, beyondAuth>>

\* lines 148-159: the lock is taken, no cached token passes the test, and the POST to
\* the token endpoint is sent (the lock stays held while it is in flight)
StartRefresh(c) ==
    /\ tpc[c] = "waiting"
    /\ LockFree
    /\ ~CacheHit(now)
    /\ exchanges < MaxExchanges
    /\ auth_lock' = c
    /\ tpc' = [tpc EXCEPT ![c] = "exchanging"]
    /\ exchanges' = exchanges + 1
    /\ call' = [call EXCEPT ![c] =
                   [calls |-> call[c].calls + 1, waited |-> call[c].waited,
                    checked_at |-> now, cached |-> token_info,
                    after_invalidate |-> invalidated.pending]]
    /\ invalidated' = [invalidated EXCEPT !.pending = FALSE]
    /\ UNCHANGED <<token_info, result, now, beyondAuth>>

\* lines 159-160 and the exit of the with block: the endpoint answered (or the
\* transport failed); the token is cached and returned, or the error is raised
TokenResponse(c, resp) ==
    /\ tpc[c] = "exchanging"
    /\ LET out == request_token(resp, now, exchanges)
       IN /\ token_info' = CacheAfterExchange(out)
          /\ result' = [result EXCEPT ![c] =
                IF out.ok
                THEN [kind |-> "token", token |-> out.token,
                      validity |-> out.token.expires_at - now,
                      calls |-> call[c].calls, checked_at |-> call[c].checked_at,
                      cached |-> call[c].cached, waited |-> call[c].waited,
                      after_invalidate |-> call[c].after_invalidate]
                ELSE [kind |-> "raise", err |-> out.err,
                      calls |-> call[c].calls, checked_at |-> call[c].checked_at,
                      cached |-> call[c].cached, waited |-> call[c].waited,
                      after_invalidate |-> call[c].after_invalidate, resp |-> resp]]
          /\ call' = [d \in Callers |->
                IF out.ok /\ tpc[d] = "waiting"
                THEN [call[d] EXCEPT !.waited = TRUE] ELSE call[d]]
    /\ auth_lock' = NoHolder
    /\ tpc' = [tpc EXCEPT ![c] = "idle"]
    /\ UNCHANGED <<exchanges, invalidated, now, beyondAuth>>

\* RedditAuth.invalidate_token, under the lock
InvalidateToken(c) ==
    /\ tpc[c] = "idle"
    /\ LockFree
    /\ token_info' = InvalidatedCache
    /\ invalidated' = [pending |-> TRUE, token |-> token_info]
    /\ call' = [d \in Callers |-> [call[d] EXCEPT !.waited = FALSE]]
    /\ UNCHANGED <<auth_lock, tpc, result, exchanges, now, beyondAuth>>

\* the clock advances
AuthTick ==
    /\ now + 100 <= MaxAuthTime
    /\ now' = now + 100
    /\ UNCHANGED <<authVars, beyondAuth>>

NextAuth ==
    \/ \E c \in Callers : CallGetAccessToken(c)
    \/ \E c \in Callers : UseCachedToken(c)
    \/ \E c \in Callers : StartRefresh(c)
    \/ \E c \in Callers, resp \in TokenResponses : TokenResponse(c, resp)
    \/ \E c \in Callers : InvalidateToken(c)
    \/ AuthTick

SpecAuth == InitAuth /\ [][NextAuth]_vars

Returned(c) == result[c].kind = "token"
Raised(c) == result[c].kind = "raise"
Finished(c) == Returned(c) \/ Raised(c)
\* the cache the call found under the lock held a token that passed the test
FoundFresh(r) == r.cached # NoToken /\ r.cached[1].expires_at > r.checked_at + EXPIRY_BUFFER_SEC

\* C5 as stated: every returned token has at least the buffer of validity left when
\* it is returned, whatever expires_in the endpoint answered.
C5_EveryTokenHasBuffer ==
    \A c \in Callers : Returned(c) => result[c].validity >= EXPIRY_BUFFER_SEC

\* C5 amended: a token returned from the cache has more than the buffer left; a
\* cached token with no more than the buffer left is never returned, the call
\* refreshes and returns the newly exchanged token, whose validity is whatever
\* expires_in the endpoint answered.
C5_CachedTokenHasBuffer ==
    \A c \in Callers :
        Returned(c) =>
            /\ result[c].calls = 0 =>
                  /\ result[c].validity > EXPIRY_BUFFER_SEC
                  /\ result[c].cached = <<result[c].token>>
            /\ ~FoundFresh(result[c]) =>
                  /\ result[c].calls = 1
                  /\ result[c].cached # <<result[c].token>>

\* a cached token returned, and a freshly exchanged token with less than the buffer
C5_Witness ==
    \E c, d \in Callers :
        /\ Returned(c) /\ result[c].calls = 0
        /\ Returned(d) /\ result[d].calls = 1
        /\ result[d].validity < EXPIRY_BUFFER_SEC

\* C6: a call that finds a cached token expiring more than the buffer after now
\* sends no token request and returns that token; a call that finds no token, or one
\* expiring within the buffer, sends exactly one token request.
C6_CallsPerCacheState ==
    \A c \in Callers :
        /\ Finished(c) =>
              IF FoundFresh(result[c])
              THEN /\ result[c].calls = 0
                   /\ Returned(c)
                   /\ result[c].token = result[c].cached[1]
              ELSE result[c].calls = 1
        /\ tpc[c] = "exchanging" => (call[c].calls = 1 /\ ~FoundFresh(call[c]))

\* expires_at = now + 400: no request; expires_at = now + 100: one request
C6_Witness ==
    \E c, d \in Callers :
        /\ Finished(c) /\ result[c].calls = 0
        /\ result[c].cached[1].expires_at = result[c].checked_at + 400
        /\ Finished(d) /\ result[d].calls = 1
        /\ result[d].cached # NoToken
        /\ result[d].cached[1].expires_at = result[d].checked_at + 100

InFlight == { c \in Callers : tpc[c] = "exchanging" }

\* C7 as stated: at most one exchange is in flight, and a caller that waited for the
\* lock while another caller's exchange succeeded never sends its own request.
C7_WaitersNeverExchange ==
    /\ Cardinality(InFlight) <= 1
    /\ \A c \in Callers : tpc[c] = "exchanging" => ~call[c].waited

\* C7 amended: at most one exchange is in flight, by the holder of the lock; a caller
\* that waited while another caller's exchange succeeded returns the token that
\* exchange cached, without a request of its own, when that token still has more
\* than the buffer left as the caller gets the lock, and sends its own request only
\* when it has not (no invalidate_token in between).
C7_SingleFlightAndReuse ==
    /\ Cardinality(InFlight) <= 1
    /\ \A c \in InFlight : auth_lock = c
    /\ \A c \in Callers :
         /\ (tpc[c] = "exchanging" /\ call[c].waited) =>
               /\ call[c].cached # NoToken
               /\ call[c].cached[1].expires_at <= call[c].checked_at + EXPIRY_BUFFER_SEC
         /\ (Finished(c) /\ result[c].waited /\ FoundFresh(result[c])) =>
               /\ result[c].calls = 0
               /\ Returned(c)
               /\ result[c].token = result[c].cached[1]

\* a caller that waited during the other caller's exchange and reused its token
C7_Witness ==
    \E c \in Callers :
        /\ Returned(c) /\ result[c].waited /\ result[c].calls = 0
        /\ exchanges = 1

\* C8: from invalidate_token until the next call takes the lock the cache is empty,
\* and that call sends a token request.
C8_InvalidateForcesExchange ==
    /\ invalidated.pending => token_info = NoToken
    /\ \A c \in Callers :
         /\ (Finished(c) /\ result[c].after_invalidate) => result[c].calls = 1
         /\ (tpc[c] = "waiting" /\ invalidated.pending) => ~CacheHit(now)

\* the call after the invalidation of a token that still had more than the buffer left
C8_Witness ==
    \E c \in Callers :
        /\ Finished(c) /\ result[c].after_invalidate /\ result[c].calls = 1
        /\ invalidated.token # NoToken
        /\ TokenIsFresh(invalidated.token[1], result[c].checked_at)

\* the failing outcomes C9 lists: a transport failure or a status that is not 2xx
ListedFailure(resp) == resp.exc # "none" \/ resp.status < 200 \/ resp.status >= 300

InitClient ==
    /\ FreshState
    /\ IdleCycle
    /\ raised = "none"
    /\ op = "init"
    /\ now = ClientEpoch
    /\ AuthIdle
    /\ RequestIdle
    /\ LaterIdle
    /\ respect_headers \in BOOLEAN
    /\ last_request_time = 0
    /\ request_times = <<>>
    /\ remaining_requests = None
    /\ reset_time = None
    /\ released = <<>>

\* RedditClient._wait_for_rate_limit, under self._rate_limit_lock
WaitForRateLimit(late) ==
    /\ Len(released) < MaxRequests
    /\ LET t1 == AfterSafetyInterval(now, late)
           t2 == AfterQpm(t1, late)
           t3 == AfterServerQuota(t2, late)
       IN /\ t3 <= MaxClientTime
          /\ request_times' = Append(TimesAfterQpm(t1, t2), t3)
          /\ last_request_time' = t3
          /\ released' = Append(released, t3)
          /\ now' = t3
    /\ UNCHANGED <<respect_headers, remaining_requests, reset_time, beyondClient>>

\* RedditClient._update_rate_limit_from_headers for the response of a sent request
UpdateRateLimitFromHeaders(remaining, reset) ==
    /\ Len(released) > 0
    /\ respect_headers
    /\ remaining_requests' = HeaderUpdate(remaining_requests, remaining, remaining.val)
    /\ reset_time' = HeaderUpdate(reset_time, reset, now + 1000 * reset.val)
    /\ UNCHANGED <<respect_headers, last_request_time, request_times, released,
                   now, beyondClient>>

\* the time the last request was recorded (the start of the run before the first)
LastRelease == IF released = <<>> THEN ClientEpoch ELSE released[Len(released)]

\* time passes: the clock reaches `idle` milliseconds after the last recorded request
ClientTick(idle) ==
    /\ LastRelease + idle > now
    /\ LastRelease + idle <= MaxClientTime
    /\ now' = LastRelease + idle
    /\ UNCHANGED <<clientVars, beyondClient>>

NextClient ==
    \/ \E late \in {0, 100} : WaitForRateLimit(late)
    \/ \E remaining, reset \in HeaderValues : UpdateRateLimitFromHeaders(remaining, reset)
    \/ \E idle \in {200, 40000, 70000} : ClientTick(idle)

SpecClient == InitClient /\ [][NextClient]_vars

\* C10: the time recorded for a request is at least safety_min_interval_ms after
\* the time recorded for the request before it.
C10_SafetyInterval ==
    \A i \in 2..Len(released) : released[i] - released[i - 1] >= safety_min_interval_ms

\* a request that arrived 200 ms after the one before it and was released after a sleep
C10_Witness ==
    /\ Len(released) >= 2
    /\ released[Len(released)] - released[Len(released) - 1] = safety_min_interval_ms

\* the requests recorded in the 60 seconds that end with request i, request i included
RecordedInWindow(i) ==
    { j \in 1..i : released[j] > released[i] - WindowMs }

\* C11: when a request is released, at most max_qpm requests are recorded in the
\* trailing 60 seconds (the released one included); a request that found max_qpm
\* requests in the window is released only once the oldest of them has left it.
C11_QpmCap ==
    /\ \A i \in 1..Len(released) : Cardinality(RecordedInWindow(i)) <= max_qpm
    /\ \A i \in (max_qpm + 1)..Len(released) :
          released[i] >= released[i - max_qpm] + WindowMs
    /\ Len(request_times) <= max_qpm

\* max_qpm requests inside one minute, and the next one released exactly when the
\* oldest of them left the window
C11_Witness ==
    /\ Len(released) > max_qpm
    /\ released[Len(released)] = released[Len(released) - max_qpm] + WindowMs
    /\ released[Len(released) - 1] - released[Len(released) - max_qpm] < WindowMs

\* C12: with header throttling enabled, a stored remaining quota <= 1 and a stored
\* reset time, the rate limiter releases no request before that reset time.
C12_ServerQuota ==
    [][ ( /\ Len(released') = Len(released) + 1
          /\ respect_headers
          /\ remaining_requests # None
          /\ remaining_requests[1] <= 1
          /\ reset_time # None )
        => released'[Len(released')] >= reset_time[1] ]_vars

\* a request that arrived before the stored reset time with a stored quota of 1
\* and was released at the reset time
C12_Witness ==
    /\ Len(released) >= 2
    /\ respect_headers
    /\ remaining_requests = Some(1)
    /\ reset_time # None
    /\ released[Len(released)] = reset_time[1]
    /\ reset_time[1] > released[Len(released) - 1] + safety_min_interval_ms

(***************************************************************************)
(* Specification of one call of RedditClient.request by a single caller:   *)
(* each pass of the loop goes through the rate limiter, get_auth_header and *)
(* the send with the handling of its answer.  The call starts on a client   *)
(* that has sent nothing yet, with an empty, a fresh or a stale token cache.*)
(***************************************************************************)
\* the token caches a call can find: none, one that passes the test, one that does not
CachedAtStart ==
    { NoToken,
      <<[access_token |-> 0, expires_at |-> Seconds(ClientEpoch) + DefaultExpiresIn]>>,
      <<[access_token |-> 0, expires_at |-> Seconds(ClientEpoch) + 100]>> }

InitRequest ==
    /\ FreshState
    /\ IdleCycle
    /\ raised = "none"
    /\ op = "init"
    /\ now = ClientEpoch
    /\ token_info \in CachedAtStart
    /\ auth_lock = NoHolder
    /\ tpc = [c \in Callers |-> "idle"]
    /\ call = [c \in Callers |-> NoCall]
    /\ result = [c \in Callers |-> NoResult]
    /\ exchanges = 0
    /\ invalidated = [pending |-> FALSE, token |-> NoToken]
    /\ respect_headers \in BOOLEAN
    /\ last_request_time = 0
    /\ request_times = <<>>
    /\ remaining_requests = None
    /\ reset_time = None
    /\ released = <<>>
    /\ RequestIdle
    /\ LaterIdle

\* lines 222-225: request() is entered
CallRequest ==
    /\ rpc = "idle"
    /\ outcome.kind = "none"
    /\ rpc' = "limit"
    /\ attempt' = 0
    /\ token_refreshed' = FALSE
    /\ UNCHANGED <<headers, outcome, events, stats, now, authVars, clientVars,
                   beyondRequest>>

\* line 229: self._wait_for_rate_limit()
ReqWaitForRateLimit ==
    /\ rpc = "limit"
    /\ LET t1 == AfterSafetyInterval(now, 0)
           t2 == AfterQpm(t1, 0)
           t3 == AfterServerQuota(t2, 0)
       IN /\ request_times' = Append(TimesAfterQpm(t1, t2), t3)
          /\ last_request_time' = t3
          /\ released' = Append(released, t3)
          /\ now' = t3
          /\ events' = Append(EndOfLastPass(events),
                              Event("limit", t3, 0, attempt, t3 - now, NoResponse))
    /\ rpc' = "auth"
    /\ UNCHANGED <<respect_headers, remaining_requests, reset_time, attempt,
                   token_refreshed, headers, outcome, stats, authVars, beyondRequest>>

\* lines 232-233, get_access_token lines 148-154: the cached token passes the test
ReqUseCachedToken ==
    /\ rpc = "auth"
    /\ CacheHit(Seconds(now))
    /\ headers' = AuthHeader(token_info[1])
    /\ events' = Append(events, Event("auth", now, token_info[1].access_token, attempt,
                                      0, NoResponse))
    /\ rpc' = "send"
    /\ UNCHANGED <<attempt, token_refreshed, outcome, stats, now, authVars, clientVars,
                   beyondRequest>>

\* lines 232-233, get_access_token lines 156-160: no cached token passes the test, the
\* token endpoint is asked; AuthError (or what _request_token lets through) leaves request()
ReqRefreshToken(resp) ==
    /\ rpc = "auth"
    /\ ~CacheHit(Seconds(now))
    /\ exchanges' = exchanges + 1
    /\ LET out == request_token(resp, Seconds(now), exchanges + 1)
       IN IF out.ok
          THEN /\ token_info' = <<out.token>>
               /\ headers' = AuthHeader(out.token)
               /\ events' = Append(events, Event("auth", now, out.token.access_token,
                                                 attempt, 1, NoResponse))
               /\ rpc' = "send"
               /\ outcome' = outcome
          ELSE /\ token_info' = token_info
               /\ headers' = headers
               /\ events' = Append(events, Event("auth_failed", now, 0, attempt, 1,
                                                 NoResponse))
               /\ rpc' = "done"
               /\ outcome' = [kind |-> "raise", err |-> out.err, status |-> 0]
    /\ UNCHANGED <<auth_lock, tpc, call, result, invalidated, attempt, token_refreshed,
                   stats, now, clientVars, beyondRequest>>

\* lines 238-331: the send, _update_rate_limit_from_headers for a response, and the
\* handling of the answer up to the return, the raise or the continue
ReqSend(response) ==
    /\ rpc = "send"
    /\ LET todo == ResponseAction(response, attempt, token_refreshed)
           sent == Event("send", now, headers[1], attempt, 0, response)
           updates == response.exc = "none" /\ respect_headers
       IN /\ remaining_requests' =
                IF updates
                THEN HeaderUpdate(remaining_requests, response.quota.remaining,
                                  response.quota.remaining.val)
                ELSE remaining_requests
          /\ reset_time' =
                IF updates
                THEN HeaderUpdate(reset_time, response.quota.reset,
                                  now + 1000 * response.quota.reset.val)
                ELSE reset_time
          /\ rpc' = IF todo.act \in {"return", "raise"} THEN "done" ELSE "limit"
          /\ outcome' =
                IF todo.act = "return" THEN [kind |-> "return", err |-> "none", status |-> 200]
                ELSE IF todo.act = "raise"
                THEN [kind |-> "raise", err |-> todo.err, status |-> todo.status]
                ELSE outcome
          /\ token_info' = IF todo.act = "refresh" THEN InvalidatedCache ELSE token_info
          /\ invalidated' = IF todo.act = "refresh"
                            THEN [pending |-> TRUE, token |-> token_info]
                            ELSE invalidated
          /\ token_refreshed' = (token_refreshed \/ todo.act = "refresh")
          /\ attempt' = IF todo.act = "retry" THEN attempt + 1 ELSE attempt
          /\ now' = IF todo.act = "retry" THEN now + todo.sleep ELSE now
          /\ events' =
                IF todo.act = "refresh"
                THEN events \o <<sent, Event("invalidate", now, headers[1], attempt, 0, response)>>
                ELSE IF todo.act = "retry"
                THEN events \o <<sent, Event("sleep", now + todo.sleep, headers[1], attempt,
                                             todo.sleep, response)>>
                ELSE Append(events, sent)
          /\ stats' = [sends |-> stats.sends + 1,
                       unauthorized |-> stats.unauthorized
                           + (IF response.exc = "none" /\ response.status = 401
                              THEN 1 ELSE 0),
                       invalidations |-> stats.invalidations
                                         + (IF todo.act = "refresh" THEN 1 ELSE 0),
                       backoffs |-> stats.backoffs + (IF todo.act = "retry" THEN 1 ELSE 0)]
    /\ UNCHANGED <<auth_lock, tpc, call, result, exchanges, respect_headers,
                   last_request_time, request_times, released, headers, beyondRequest>>

NextRequest ==
    \/ CallRequest
    \/ ReqWaitForRateLimit
    \/ ReqUseCachedToken
    \/ \E resp \in RefreshResponses : ReqRefreshToken(resp)
    \/ \E response \in ApiResponses : ReqSend(response)

SpecRequest == InitRequest /\ [][NextRequest]_vars

\* the send request() has just handled, and what followed it in the same pass
JustSent ==
    /\ rpc \in {"limit", "done"}
    /\ events # <<>>
    /\ events[Len(events)].e \in {"send", "sleep", "invalidate"}
Sent == IF events[Len(events)].e = "send" THEN events[Len(events)]
        ELSE events[Len(events) - 1]
Followed == IF events[Len(events)].e = "send" THEN "nothing" ELSE events[Len(events)].e
\* the end of the pass before the current one, when the history holds it
HasLastPass == Len(events) >= 2 /\ events[1].e = "send"

\* C13: every send is preceded, in this order, by a pass through the rate limiter and
\* a get_auth_header call made after the send before it (and after its sleep or
\* invalidation); it carries the token that call returned; after an invalidation that
\* token comes from a new exchange; one attempt causes at most one exchange.
C13_FreshLimiterAndHeader ==
    \A i \in 2..Len(events) :
        events[i].e = "send" =>
            /\ i >= 3
            /\ events[i - 2].e = "limit" /\ events[i - 1].e = "auth"
            /\ events[i - 2].at <= events[i - 1].at /\ events[i - 1].at <= events[i].at
            /\ events[i].token = events[i - 1].token
            /\ events[i].x - events[i - 2].x <= 1
            /\ events[i].x - events[i - 2].x = events[i - 1].d
            /\ i > 3 =>
                  /\ i = 5 /\ events[1].e = "send"
                  /\ events[2].e \in {"sleep", "invalidate"}
                  /\ events[2].at <= events[3].at
                  /\ events[2].e = "invalidate" =>
                        /\ events[4].d = 1
                        /\ events[5].x = events[1].x + 1
                        /\ events[5].token # events[1].token

\* a send after a 401 and the invalidation, carrying another token than the refused one
C13_Witness ==
    /\ Len(events) >= 5
    /\ events[1].e = "send" /\ events[1].response.status = 401
    /\ events[2].e = "invalidate"
    /\ events[5].e = "send" /\ events[5].token # events[1].token

\* C14: the first 401 of a call invalidates the token (once), and the loop goes on
\* without sleeping and with the attempt counter unchanged; any later 401 of the call
\* raises AuthError and invalidates nothing, whatever was answered in between.
C14_Single401Refresh ==
    /\ stats.invalidations = (IF stats.unauthorized >= 1 THEN 1 ELSE 0)
    /\ token_refreshed = (stats.unauthorized >= 1)
    /\ stats.unauthorized <= 2
    /\ (JustSent /\ Sent.response.status = 401 /\ stats.unauthorized = 1) =>
          /\ Followed = "invalidate"
          /\ rpc = "limit"
          /\ token_info = NoToken
          /\ attempt = Sent.k
          /\ stats.backoffs = Sent.k
          /\ now = Sent.at
    /\ stats.unauthorized = 2 =>
          /\ JustSent /\ Sent.response.status = 401
          /\ Followed = "nothing"
          /\ rpc = "done"
          /\ outcome.kind = "raise" /\ outcome.err = "AuthError"
          /\ token_info # NoToken
          /\ now = Sent.at

\* a second 401 in a call whose pass before it was answered 429
C14_Witness ==
    /\ stats.unauthorized = 2
    /\ HasLastPass /\ events[1].response.status = 429
    /\ outcome.err = "AuthError"

\* C15: a 403 or 404 ends request() at once with APIError carrying that status: no
\* sleep, no further attempt, whatever the attempt counter is.
C15_PermanentStatus ==
    (JustSent /\ Sent.response.status \in {403, 404}) =>
        /\ Followed = "nothing"
        /\ rpc = "done"
        /\ outcome.kind = "raise" /\ outcome.err = "APIError"
        /\ outcome.status = Sent.response.status
        /\ attempt = Sent.k /\ stats.backoffs = Sent.k
        /\ now = Sent.at

\* a 403 that arrived with retries left, after one backoff retry
C15_Witness ==
    /\ JustSent /\ Sent.response.status = 403
    /\ Sent.k >= 1 /\ Sent.k < retries
    /\ outcome.err = "APIError" /\ outcome.status = 403

\* C16: a 429/500/502/503/504 is retried while the attempt counter is below retries;
\* with the counter at retries a 429 raises RateLimitExceeded and the others APIError
\* with the status; such a failure leaves request() only with the budget used up, and
\* a 200 with a JSON body returns it.
C16_RetryBudget ==
    /\ attempt <= retries
    /\ (JustSent /\ Sent.response.status \in RetryableStatus) =>
          IF Sent.k < retries
          THEN /\ Followed = "sleep" /\ rpc = "limit"
               /\ attempt = Sent.k + 1
               /\ outcome.kind = "none"
          ELSE /\ Followed = "nothing" /\ rpc = "done"
               /\ outcome.kind = "raise"
               /\ Sent.response.status = 429 =>
                     outcome.err = "RateLimitExceeded"
               /\ Sent.response.status # 429 =>
                     outcome.err = "APIError" /\ outcome.status = Sent.response.status
    /\ (outcome.err = "RateLimitExceeded"
          \/ (outcome.err = "APIError" /\ outcome.status \in RetryableStatus)) =>
          /\ attempt = retries /\ stats.backoffs = retries
          /\ stats.sends >= retries + 1
    /\ (JustSent /\ Sent.response.status = 200 /\ Sent.response.body = "json") =>
          /\ rpc = "done" /\ outcome.kind = "return" /\ outcome.status = 200

\* a 429 that raised RateLimitExceeded once the budget was used up
C16_Witness ==
    /\ JustSent /\ Sent.response.status = 429 /\ Sent.k = retries
    /\ outcome.err = "RateLimitExceeded"
    /\ HasLastPass /\ events[1].response.status = 503

\* the delay a Retry-After header asks for, in milliseconds
Asked(response) == 1000 * response.retry_after.val

\* C17 as stated: the sleep before a retry is the delay of the Retry-After header
\* whenever the response carries one, and backoff_sec * 2^k otherwise.
C17_RetryAfterAlwaysHonoured ==
    (JustSent /\ Followed = "sleep") =>
        events[Len(events)].d =
            IF Sent.response.exc = "none" /\ Sent.response.retry_after.kind # "absent"
            THEN Asked(Sent.response)
            ELSE 1000 * backoff_sec * Pow2(Sent.k)

\* C17 (amended): the sleep before retry k is the Retry-After value when the header is
\* a number of seconds, and backoff_sec * 2^k when the header is absent or not a number
\* (an HTTP date); the next pass through the rate limiter and the next send start
\* after the sleep has ended.
C17_BackoffDelay ==
    /\ (JustSent /\ Followed = "sleep") =>
          /\ events[Len(events)].d =
                IF Sent.response.exc = "none" /\ Sent.response.retry_after.kind = "number"
                THEN Asked(Sent.response)
                ELSE 1000 * backoff_sec * Pow2(Sent.k)
          /\ now = Sent.at + events[Len(events)].d
          /\ events[Len(events)].k = Sent.k
    /\ (HasLastPass /\ events[2].e = "sleep") =>
          \A i \in 3..Len(events) : events[i].at >= events[1].at + events[2].d

\* a 429 with Retry-After: 2 and the next send, 2 seconds or more after it
C17_Witness ==
    /\ Len(events) >= 5 /\ HasLastPass
    /\ events[1].response.status = 429
    /\ events[1].response.retry_after = [kind |-> "number", val |-> 2]
    /\ events[2].e = "sleep" /\ events[2].d = 2000
    /\ events[5].e = "send" /\ events[5].at >= events[1].at + 2000

\* C18: a timeout or connection failure is retried after backoff_sec * 2^k while the
\* attempt counter (the one the 429/5xx retries advance) is below retries, and raises
\* APIError once it has reached retries.
C18_TransportFailure ==
    /\ stats.backoffs = attempt
    /\ (JustSent /\ Sent.response.exc # "none") =>
          IF Sent.k < retries
          THEN /\ Followed = "sleep" /\ rpc = "limit"
               /\ attempt = Sent.k + 1
               /\ events[Len(events)].d = 1000 * backoff_sec * Pow2(Sent.k)
               /\ now = Sent.at + events[Len(events)].d
          ELSE /\ Followed = "nothing" /\ rpc = "done"
               /\ outcome.kind = "raise" /\ outcome.err = "APIError"

\* a timeout that raised APIError after the budget was used up by a 5xx retry and more
C18_Witness ==
    /\ JustSent /\ Sent.response.exc = "Timeout" /\ Sent.k = retries
    /\ outcome.err = "APIError"
    /\ HasLastPass /\ events[1].response.status = 503

\* C19 as stated: a cycle that raised an error of the API or storage layer leaves the
\* loop running (waiting for the next cycle), and the loop is left only by a shutdown.
C19_LoopSurvivesCycleErrors ==
    /\ (raised \in RequestErrors \cup {"StorageError"} /\ op # "restart") => pc = "idle"
    /\ pc = "exited" => op = "shutdown"

\* C20 as stated: an I/O failure while appending the records, saving the state or
\* rewriting a file in the purge leaves the cycle as StorageError.
C20_StorageFailuresPropagate ==
    op \in IoFailures => raised = "StorageError"

(* ---- cmd_run and cmd_once (cli.py) ---- *)
\* the sleeps of _wait_for_rate_limit (reddit_client.py lines 109 and 123: the safety
\* interval, and the wait for the oldest request to leave the 60-second window) and of
\* the retry branches of request() (lines 284, 299, 316, 328), in milliseconds
RateLimiterSleeps == {safety_min_interval_ms, WindowMs}
BackoffSleeps == { calculate_backoff(k, ApiFailure("Timeout")) : k \in 0..(retries - 1) }
RequestSleeps == ({"rate_limit"} \X RateLimiterSleeps) \cup ({"backoff"} \X BackoffSleeps)
\* what a request of the start-up validation or of a cycle can raise
ValidationErrors == {"MultiValidationError", "AuthError", "RateLimitExceeded"}
\* the handlers of cmd_once (lines 213-230) and the outer ones of cmd_run (329-337)
\* all return 1
ExitOnError == 1
Command == did.command

InitRun ==
    /\ FreshState
    /\ IdleCycle
    /\ raised = "none"
    /\ op = "init"
    /\ now = 0
    /\ AuthIdle
    /\ ClientIdle
    /\ RequestIdle
    /\ wpc = "validate"
    /\ shutdown_requested = FALSE
    /\ shutdown_at = <<>>
    /\ sleeping = NoSleep
    /\ poll_left = 0
    /\ exit_code = <<>>
    /\ did \in { [NoRun EXCEPT !.command = c] : c \in {"run", "once"} }
    /\ PublishIdle
    /\ FnIdle
    /\ ThreadsIdle

\* what the actions of the commands never touch
beyondRun == <<stateVars, cycleVars, authVars, clientVars, requestVars,
               publishVars, fnVars, threadVars>>

\* cli.py lines 53-58: the handler of SIGINT and SIGTERM, installed by cmd_run only
\* (lines 251-252), sets the flag and returns to what it interrupted
signal_handler ==
    /\ Command = "run"
    /\ wpc # "exited"
    /\ ~shutdown_requested
    /\ shutdown_requested' = TRUE
    /\ shutdown_at' = Some(now)
    /\ op' = "signal"
    /\ UNCHANGED <<wpc, sleeping, poll_left, exit_code, did, now, raised, beyondRun>>

\* a request of validate_multi or of run_once enters a time.sleep of the client
StartRequestSleep(kind, d) ==
    /\ wpc \in {"validate", "fetch"}
    /\ sleeping = NoSleep
    /\ did.sleeps < MaxRunSleeps
    /\ sleeping' = [kind |-> kind, from |-> now, until |-> now + d]
    /\ did' = [did EXCEPT !.sleeps = @ + 1]
    /\ op' = "sleep"
    /\ UNCHANGED <<wpc, shutdown_requested, shutdown_at, poll_left, exit_code, now,
                   raised, beyondRun>>

\* time passes inside a time.sleep
SleepGoesOn ==
    /\ sleeping # NoSleep
    /\ now + SleepTick < sleeping.until
    /\ now + SleepTick <= sleeping.from + MaxSleepWatch
    /\ now' = now + SleepTick
    /\ op' = "tick"
    /\ UNCHANGED <<runVars, raised, beyondRun>>

\* time.sleep returns when its time is over: a handled signal does not end it
\* (the handler returns without raising, and the sleep is resumed)
WakeUp ==
    /\ sleeping # NoSleep
    /\ now' = sleeping.until
    /\ sleeping' = NoSleep
    /\ op' = "wake"
    /\ UNCHANGED <<wpc, shutdown_requested, shutdown_at, poll_left, exit_code, did,
                   raised, beyondRun>>

\* the command returns n
Return(n) ==
    /\ wpc' = "exited"
    /\ exit_code' = Some(n)

\* cmd_run line 260, cmd_once line 190: validate_multi(client, config) returns
ValidateOk ==
    /\ wpc = "validate" /\ sleeping = NoSleep
    /\ did' = [did EXCEPT !.validations = @ + 1, !.validated = TRUE]
    /\ wpc' = IF Command = "run" THEN "loop_test" ELSE "fetch"
    /\ raised' = "none"
    /\ op' = "validate"
    /\ UNCHANGED <<shutdown_requested, shutdown_at, sleeping, poll_left, exit_code,
                   now, beyondRun>>

\* (a run that logs the failure of the validation and goes on)
ValidateFails_Ignored(err) ==
    /\ wpc = "validate" /\ sleeping = NoSleep
    /\ did' = [did EXCEPT !.validations = @ + 1]
    /\ wpc' = IF Command = "run" THEN "loop_test" ELSE "fetch"
    /\ raised' = err
    /\ op' = "validate"
    /\ UNCHANGED <<shutdown_requested, shutdown_at, sleeping, poll_left, exit_code,
                   now, beyondRun>>

\* validate_multi raises: no handler of either command goes on
ValidateFails(err) ==
    /\ wpc = "validate" /\ sleeping = NoSleep
    /\ did' = [did EXCEPT !.validations = @ + 1]
    /\ Return(ExitOnError)
    /\ raised' = err
    /\ op' = "validate"
    /\ UNCHANGED <<shutdown_requested, shutdown_at, sleeping, poll_left, now,
                   beyondRun>>

\* cmd_run line 283: while not _shutdown_requested
LoopTest ==
    /\ wpc = "loop_test"
    /\ IF shutdown_requested
       THEN wpc' = "final_save" /\ did' = did
       ELSE /\ did.cycles < MaxRunCycles
            /\ wpc' = "fetch"
            /\ did' = [did EXCEPT !.cycles = @ + 1]
    /\ raised' = "none"
    /\ op' = "loop_test"
    /\ UNCHANGED <<shutdown_requested, shutdown_at, sleeping, poll_left, exit_code,
                   now, beyondRun>>

\* where an exception of a cycle leaves the command
CycleRaises(err, caught) ==
    IF Command = "run" /\ err \in caught
    THEN wpc' = "after_cycle" /\ exit_code' = exit_code
    ELSE Return(ExitOnError)

\* where a finished run_once leaves the command
CycleReturns ==
    IF Command = "run"
    THEN wpc' = "after_cycle" /\ exit_code' = exit_code
    ELSE Return(0)

\* (mutation of FetchOk: the cycle without a new post returns without saving)
FetchOk_NoSaveWhenEmpty(found) ==
    /\ wpc = "fetch" /\ sleeping = NoSleep
    /\ did' = [did EXCEPT !.fetches = @ + 1]
    /\ IF found THEN wpc' = "write" /\ exit_code' = exit_code ELSE CycleReturns
    /\ op' = "fetch"
    /\ UNCHANGED <<shutdown_requested, shutdown_at, sleeping, poll_left,
                   now, raised, beyondRun>>

\* run_once lines 141-144: fetch_listing and process_new_posts
FetchOk(found) ==
    /\ wpc = "fetch" /\ sleeping = NoSleep
    /\ did' = [did EXCEPT !.fetches = @ + 1]
    /\ wpc' = IF found THEN "write" ELSE "save"
    /\ op' = "fetch"
    /\ UNCHANGED <<shutdown_requested, shutdown_at, sleeping, poll_left, exit_code,
                   now, raised, beyondRun>>

FetchFails(err) ==
    /\ wpc = "fetch" /\ sleeping = NoSleep
    /\ did' = [did EXCEPT !.fetches = @ + 1]
    /\ CycleRaises(err, CaughtByLoop)
    /\ raised' = err
    /\ op' = "fetch"
    /\ UNCHANGED <<shutdown_requested, shutdown_at, sleeping, poll_left, now,
                   beyondRun>>

\* run_once line 153: writer.write_posts(new_posts)
WriteOut(ok) ==
    /\ wpc = "write"
    /\ did' = [did EXCEPT !.writes = @ + 1]
    /\ IF ok
       THEN wpc' = "save" /\ exit_code' = exit_code /\ raised' = raised
       ELSE CycleRaises("StorageError", CaughtByLoop) /\ raised' = "StorageError"
    /\ op' = "write"
    /\ UNCHANGED <<shutdown_requested, shutdown_at, sleeping, poll_left, now,
                   beyondRun>>

\* run_once lines 148-149 and 158-159: state.update_last_run(); state.save()
SaveOut(ok) ==
    /\ wpc = "save"
    /\ did' = [did EXCEPT !.saves = @ + 1]
    /\ IF ok
       THEN CycleReturns /\ raised' = raised
       ELSE CycleRaises("StorageError", CaughtByLoop) /\ raised' = "StorageError"
    /\ op' = "save"
    /\ UNCHANGED <<shutdown_requested, shutdown_at, sleeping, poll_left, now,
                   beyondRun>>

\* cmd_run lines 310-312: if not _shutdown_requested, the wait for the next cycle
AfterCycle ==
    /\ wpc = "after_cycle"
    /\ IF shutdown_requested
       THEN wpc' = "loop_test" /\ poll_left' = poll_left
       ELSE wpc' = "poll_wait" /\ poll_left' = poll_interval_sec
    /\ op' = "after_cycle"
    /\ UNCHANGED <<shutdown_requested, shutdown_at, sleeping, exit_code, did, now,
                   raised, beyondRun>>

\* cmd_run lines 313-316: for _ in range(poll_interval): if flag: break; time.sleep(1)
PollStep ==
    /\ wpc = "poll_wait" /\ sleeping = NoSleep
    /\ IF poll_left = 0 \/ shutdown_requested
       THEN /\ wpc' = "loop_test"
            /\ UNCHANGED <<poll_left, sleeping>>
       ELSE /\ poll_left' = poll_left - 1
            /\ sleeping' = [kind |-> "poll", from |-> now, until |-> now + 1000]
            /\ wpc' = wpc
    /\ op' = "poll_step"
    /\ UNCHANGED <<shutdown_requested, shutdown_at, exit_code, did, now, raised,
                   beyondRun>>

\* cmd_run lines 322-326: the final state.save(), then return 0; a StorageError of
\* it reaches the outer except Exception
FinalSave(ok) ==
    /\ wpc = "final_save"
    /\ did' = [did EXCEPT !.saves = @ + 1]
    /\ Return(IF ok THEN 0 ELSE ExitOnError)
    /\ raised' = IF ok THEN raised ELSE "StorageError"
    /\ op' = "final_save"
    /\ UNCHANGED <<shutdown_requested, shutdown_at, sleeping, poll_left, now,
                   beyondRun>>

NextRun ==
    \/ signal_handler
    \/ \E s \in RequestSleeps : StartRequestSleep(s[1], s[2])
    \/ SleepGoesOn
    \/ WakeUp
    \/ ValidateOk
    \/ \E err \in ValidationErrors : ValidateFails(err)
    \/ LoopTest
    \/ \E found \in BOOLEAN : FetchOk(found)
    \/ \E err \in RequestErrors : FetchFails(err)
    \/ \E ok \in BOOLEAN : WriteOut(ok)
    \/ \E ok \in BOOLEAN : SaveOut(ok)
    \/ AfterCycle
    \/ PollStep
    \/ \E ok \in BOOLEAN : FinalSave(ok)

SpecRun == InitRun /\ [][NextRun]_vars

\* C21 as stated: once shutdown is requested, no sleep of the main thread goes on for
\* more than a second (the rate-limiter sleep, the backoff sleep and the steps of the
\* poll-interval wait alike), and the poll-interval wait sleeps in steps of one second
\* at most and starts no step once the flag is set.
C21_SleepsInterruptible ==
    /\ (shutdown_requested /\ sleeping # NoSleep) =>
          /\ sleeping.until <= shutdown_at[1] + 1000
          /\ sleeping.until <= sleeping.from + 1000 \/ sleeping.from < shutdown_at[1]
    /\ sleeping.kind = "poll" => sleeping.until - sleeping.from <= 1000

\* C27: validate_multi is called exactly once in a run of cmd_run or cmd_once; no
\* listing fetch, output write, state save or loop pass happens before it has returned
\* successfully; a failed validation ends the run with exit code 1 and nothing of the
\* poll loop done.
C27_ValidatedOnceFirst ==
    /\ did.validations = (IF wpc = "validate" THEN 0 ELSE 1)
    /\ (did.cycles + did.fetches + did.writes + did.saves > 0) => did.validated
    /\ wpc \notin {"validate", "exited"} => did.validated
    /\ (wpc # "validate" /\ ~did.validated) =>
          /\ wpc = "exited" /\ exit_code = Some(1)
          /\ did.cycles + did.fetches + did.writes + did.saves = 0
          /\ poll_left = 0

\* cmd_run whose validation raised MultiValidationError after a rate-limiter sleep
C27_Witness ==
    /\ Command = "run" /\ did.validations = 1 /\ ~did.validated
    /\ raised = "MultiValidationError" /\ exit_code = Some(1)
    /\ did.sleeps > 0

(* ---- State.save and CompliancePurger._purge_file on the file system (storage.py) ---- *)
StatePath == "state.json"
OutputPath == "posts.jsonl"
Paths == {"state.json", "state.tmp", "posts.jsonl", "posts.tmp"}
\* (a writer that writes the new content into the target itself)
with_suffix_tmp_InPlace(path) == path
\* Path.with_suffix(".tmp") of the two targets
with_suffix_tmp(path) == IF path = StatePath THEN "state.tmp" ELSE "posts.tmp"

Absent == [exists |-> FALSE, lines |-> <<>>]
FileOf(lines) == [exists |-> TRUE, lines |-> lines]
\* a line of a file, without its "\n". kind: "normal" and "flagged" are records as
\* write_posts writes them (json.dumps of a PostData, is_deleted_or_removed false or
\* true); "malformed" is a line json.loads rejects; "chunk" is a piece of the document
\* json.dump writes for the state. id: the position of the line in the original file,
\* or the number of the save. trail: the number of spaces at the end of the line
Line(kind, id, trail) == [kind |-> kind, id |-> id, trail |-> trail]
\* the output files the program can have left behind: complete records, lines made
\* malformed by an append that was cut short and the append after it, and as the last
\* line an append cut short, which ends in a space when it was cut after a separator
\* of json.dumps (", " or ": ")
OutputKinds == {"normal", "flagged", "malformed"}
OutputFiles ==
    LET whole == UNION { [1..n -> OutputKinds] : n \in 0..MaxLines }
        lines(f, t) == [i \in 1..Len(f) |->
                           Line(f[i], i, IF i = Len(f) THEN t ELSE 0)]
    IN  { lines(f, 0) : f \in whole }
        \cup { lines(f, 1) : f \in { g \in whole : Len(g) > 0 /\ g[Len(g)] = "malformed" } }
\* the document of the save number v, in the chunks json.dump hands to f.write
StateDoc(v) == [i \in 1..StateChunks |-> Line("chunk", v, 0)]

\* _purge_file line 256: line = line.strip()
strip(line) == [line EXCEPT !.trail = 0]
\* _purge_file lines 260-272: json.loads raises JSONDecodeError for a malformed line;
\* a record is dropped when data.get("is_deleted_or_removed", False) is true
IsPurged(line) == line.kind = "flagged"
RECURSIVE kept_lines(_)
kept_lines(lines) ==
    IF lines = <<>> THEN <<>>
    ELSE IF IsPurged(strip(Head(lines))) THEN kept_lines(Tail(lines))
         ELSE <<strip(Head(lines))>> \o kept_lines(Tail(lines))
RECURSIVE purged_count(_)
purged_count(lines) ==
    IF lines = <<>> THEN 0
    ELSE (IF IsPurged(strip(Head(lines))) THEN 1 ELSE 0) + purged_count(Tail(lines))

\* no operation yet
NoJob == [n |-> 0, op |-> "none", path |-> "none", temp |-> "none", old |-> Absent,
          new |-> <<>>, count |-> 0, ended |-> "no", error |-> FALSE]

InitPublish ==
    /\ FreshState
    /\ IdleCycle
    /\ raised = "none"
    /\ op = "init"
    /\ now = 0
    /\ AuthIdle
    /\ ClientIdle
    /\ RequestIdle
    /\ RunIdle
    /\ \E s \in {Absent, FileOf(StateDoc(0))}, o \in OutputFiles :
          files = [p \in Paths |-> IF p = StatePath THEN s
                                   ELSE IF p = OutputPath THEN FileOf(o) ELSE Absent]
    /\ ppc = "idle"
    /\ job = NoJob
    /\ FnIdle
    /\ ThreadsIdle

\* what the actions of the writers never touch
beyondPublish == <<stateVars, cycleVars, now, authVars, clientVars, requestVars,
                   runVars, fnVars, threadVars>>

\* State.save lines 71-84: the document to write and the name of the temporary file
SaveBegin ==
    /\ ppc = "idle" /\ job.n < MaxPublishOps
    /\ job' = [n |-> job.n + 1, op |-> "save", path |-> StatePath,
               temp |-> with_suffix_tmp(StatePath), old |-> files[StatePath],
               new |-> StateDoc(job.n + 1), count |-> 0, ended |-> "no",
               error |-> FALSE]
    /\ ppc' = "open"
    /\ raised' = "none"
    /\ op' = "save"
    /\ UNCHANGED <<files, beyondPublish>>

\* _purge_file lines 250-277: the file is read, and nothing is rewritten unless a
\* record was dropped
PurgeBegin ==
    /\ ppc = "idle" /\ job.n < MaxPublishOps
    /\ files[OutputPath].exists
    /\ LET lines == files[OutputPath].lines
           count == purged_count(lines)
       IN  /\ job' = [n |-> job.n + 1, op |-> "purge", path |-> OutputPath,
                      temp |-> with_suffix_tmp(OutputPath), old |-> files[OutputPath],
                      new |-> kept_lines(lines), count |-> count,
                      ended |-> IF count > 0 THEN "no" ELSE "returned",
                      error |-> FALSE]
           /\ ppc' = IF count > 0 THEN "open" ELSE "idle"
    /\ raised' = "none"
    /\ op' = "purge"
    /\ UNCHANGED <<files, beyondPublish>>

\* an I/O error inside the try block: State.save raises StorageError (lines 91-93),
\* _purge_file logs it and returns purged_count (lines 285-288)
IoError ==
    /\ ppc' = "idle"
    /\ job' = [job EXCEPT !.ended = IF job.op = "save" THEN "raised" ELSE "returned",
                          !.error = TRUE]
    /\ raised' = IF job.op = "save" THEN "StorageError" ELSE raised
    /\ files' = files

\* open(temp_file, "w"): the file is created, or emptied when it exists
OpenTemp(ok) ==
    /\ ppc = "open"
    /\ IF ok
       THEN /\ files' = [files EXCEPT ![job.temp] = FileOf(<<>>)]
            /\ ppc' = "write"
            /\ UNCHANGED <<job, raised>>
       ELSE IoError
    /\ op' = "open_temp"
    /\ UNCHANGED beyondPublish

\* one f.write of json.dump, or f.write(line + "\n") of the purge
WriteTemp(ok) ==
    /\ ppc = "write"
    /\ Len(files[job.temp].lines) < Len(job.new)
    /\ IF ok
       THEN /\ files' = [files EXCEPT ![job.temp].lines =
                             Append(@, job.new[Len(@) + 1])]
            /\ UNCHANGED <<ppc, job, raised>>
       ELSE IoError
    /\ op' = "write_temp"
    /\ UNCHANGED beyondPublish

\* temp_file.replace(target) once everything is written and the file closed: the
\* target takes the content of the temporary file in one step
Replace(ok) ==
    /\ ppc = "write"
    /\ Len(files[job.temp].lines) = Len(job.new)
    /\ IF ok
       THEN /\ files' = [p \in Paths |->
                            IF p = job.path THEN files[job.temp]
                            ELSE IF p = job.temp THEN Absent ELSE files[p]]
            /\ ppc' = "idle"
            /\ job' = [job EXCEPT !.ended = "returned"]
            /\ raised' = raised
       ELSE IoError
    /\ op' = "replace"
    /\ UNCHANGED beyondPublish

\* the process is killed between two steps; the files stay as they are
Crash ==
    /\ ppc # "idle"
    /\ ppc' = "idle"
    /\ job' = [job EXCEPT !.ended = "crashed"]
    /\ op' = "crash"
    /\ UNCHANGED <<files, raised, beyondPublish>>

NextPublish ==
    \/ SaveBegin
    \/ PurgeBegin
    \/ \E ok \in BOOLEAN : OpenTemp(ok)
    \/ \E ok \in BOOLEAN : WriteTemp(ok)
    \/ \E ok \in BOOLEAN : Replace(ok)
    \/ Crash

SpecPublish == InitPublish /\ [][NextPublish]_vars

\* the lines a complete purge leaves: those of the original, as they were, that are
\* not flagged records
RECURSIVE NotFlagged(_)
NotFlagged(lines) ==
    IF lines = <<>> THEN <<>>
    ELSE IF Head(lines).kind = "flagged" THEN NotFlagged(Tail(lines))
         ELSE <<Head(lines)>> \o NotFlagged(Tail(lines))
RECURSIVE OfKinds(_, _)
OfKinds(lines, kinds) ==
    IF lines = <<>> THEN <<>>
    ELSE IF Head(lines).kind \in kinds THEN <<Head(lines)>> \o OfKinds(Tail(lines), kinds)
         ELSE OfKinds(Tail(lines), kinds)
PurgeReturned == job.op = "purge" /\ job.ended = "returned"

\* C22: from the start of a State.save or of a purge rewrite until the next operation
\* starts, whether the operation finished, failed or the process was killed between
\* two steps, the target file holds its complete previous content or the complete new
\* content, never a part of it.
C22_OldOrNew ==
    job.op # "none" => \/ files[job.path] = job.old
                       \/ files[job.path] = FileOf(job.new)

\* the process was killed with the temporary file of a purge half written, the
\* output file still complete
C22_Witness ==
    /\ job.op = "purge" /\ job.ended = "crashed"
    /\ Len(files[job.temp].lines) \in 1..(Len(job.new) - 1)
    /\ files[job.path] = job.old /\ job.old # FileOf(job.new)

\* C23 as stated: after a purge of an output file has returned, the records of the file
\* are the records of the original that are not flagged, as they were and in their
\* order, and the count returned is the number of flagged records of the original.
C23_PurgeResult ==
    PurgeReturned =>
        /\ OfKinds(files[OutputPath].lines, {"normal", "flagged"})
              = OfKinds(job.old.lines, {"normal"})
        /\ job.count = Len(OfKinds(job.old.lines, {"flagged"}))

\* C24 as stated: after a purge has returned, every malformed line of the original is
\* in the file as it was, and the lines of the file are the malformed lines and the
\* records kept, in the order of the original.
C24_MalformedVerbatim ==
    PurgeReturned =>
        /\ OfKinds(files[OutputPath].lines, {"malformed"})
              = OfKinds(job.old.lines, {"malformed"})
        /\ job.count > 0 /\ files[OutputPath] # job.old =>
              files[OutputPath].lines = NotFlagged(job.old.lines)

(* ---- functions of the Fetcher and of the validator, applied to drawn arguments ---- *)
\* the data of a listing item, for detect_deleted_removed and extract_post_data
Authors == {"", "u", "[deleted]", "[removed]"}
Selftexts == {"", "hello", "[deleted]", "[removed]"}
Categories == {"", "moderator", "deleted"}
PostDatas ==
    [name : {<<"a">>}, id : {"p"}, author : Authors, selftext : Selftexts,
     removed_by_category : Categories]

\* fetch_details_batch: the fullnames t3_1 .. t3_n, written as their numbers
FullnamesUpTo(n) == [i \in 1..n |-> i]
\* what /api/info answers for the ids of one request: a child per id; with omit > 0
\* the child of every omit-th fullname comes without a name
InfoChildren(ids, omit) ==
    [i \in 1..Len(ids) |->
        [name |-> IF omit > 0 /\ ids[i] % omit = 0 THEN 0 ELSE ids[i]]]
\* lines 218-221: the children with a name go into details, a later one over an
\* earlier one
MergeChildren(details, children) ==
    LET names == { children[i].name : i \in 1..Len(children) } \ {0}
        last(k) == CHOOSE i \in 1..Len(children) :
                      /\ children[i].name = k
                      /\ \A j \in (i + 1)..Len(children) : children[j].name # k
    IN  [k \in DOMAIN details \cup names |->
            IF k \in names THEN children[last(k)] ELSE details[k]]
\* the slice s[i:j] of a list, for 0 <= i <= j
Slice(s, i, j) == SubSeq(s, i + 1, IF j < Len(s) THEN j ELSE Len(s))
\* (mutation of fetch_details_batch: the slice is one id short)
RECURSIVE fetch_details_batch_ShortSlice(_, _, _, _)
fetch_details_batch_ShortSlice(fullnames, i, omit, acc) ==
    IF i >= Len(fullnames) THEN acc
    ELSE LET batch == Slice(fullnames, i, i + MAX_IDS_PER_INFO_REQUEST - 1)
         IN fetch_details_batch_ShortSlice(fullnames, i + MAX_IDS_PER_INFO_REQUEST, omit,
                [requests |-> Append(acc.requests, batch),
                 details |-> MergeChildren(acc.details, InfoChildren(batch, omit))])
\* fetch_details_batch lines 209-221, from the index i of range(0, len(fullnames),
\* MAX_IDS_PER_INFO_REQUEST) on: the requests sent and the details merged
RECURSIVE fetch_details_batch(_, _, _, _)
fetch_details_batch(fullnames, i, omit, acc) ==
    IF i >= Len(fullnames) THEN acc
    ELSE LET batch == Slice(fullnames, i, i + MAX_IDS_PER_INFO_REQUEST)
         IN fetch_details_batch(fullnames, i + MAX_IDS_PER_INFO_REQUEST, omit,
                [requests |-> Append(acc.requests, batch),
                 details |-> MergeChildren(acc.details, InfoChildren(batch, omit))])
NoDetails == [requests |-> <<>>, details |-> <<>>]

\* process_new_posts: what self.fetch_comments(post_id) does for a post
CommentOutcomes == {"comments", "APIError", "RateLimitExceeded"}
\* (mutation: the except clause catches nothing)
CaughtByCommentFetch_Nothing == {}
\* line 309: except Exception
CaughtByCommentFetch == {"APIError", "AuthError", "RateLimitExceeded"}
ProcessItems ==
    { [name |-> <<"a">>, id |-> "p", author |-> "u"],
      [name |-> <<"b">>, id |-> "p", author |-> "u"],
      [name |-> <<"a">>, id |-> "", author |-> "u"] }
\* lines 304-311 for one post: comments is <<>> for None (also the default of the
\* field), or <<what fetch_comments returned>>; an exception that is not caught ends
\* process_new_posts
WithComments(post, fetched, enabled) ==
    IF enabled /\ post.id # ""
    THEN IF fetched = "comments"
         THEN [raised |-> "none", comments |-> Some("comments")]
         ELSE IF fetched \in CaughtByCommentFetch
              THEN [raised |-> "none", comments |-> None]
              ELSE [raised |-> fetched, comments |-> None]
    ELSE [raised |-> "none", comments |-> None]

\* validate_multi: what client.get(endpoint) did. status 0 is the APIError of a
\* timeout or a connection error, which carries no status code
MultiResponses ==
    { [kind |-> "raise", err |-> e[1], status |-> e[2], subreddits |-> <<>>] :
        e \in ({"APIError"} \X {0, 400, 403, 404, 500})
              \cup {<<"AuthError", 401>>, <<"RateLimitExceeded", 429>>} }
    \cup { [kind |-> "return", err |-> "none", status |-> 200, subreddits |-> s] :
             s \in UNION { [1..n -> {"", "x", "y"}] : n \in 0..MaxSubreddits } }
\* (mutation: the two status codes are exchanged)
MultiError_Swapped(status) ==
    IF status = 403 THEN "not found"
    ELSE IF status = 404 THEN "access denied"
    ELSE "failed to validate"
\* lines 97-112: the message of the MultiValidationError raised for an APIError
MultiError(status) ==
    IF status = 404 THEN "not found"
    ELSE IF status = 403 THEN "access denied"
    ELSE "failed to validate"
\* lines 66-70: the names of the subreddits, those without a name left out
RECURSIVE SubredditNames(_)
SubredditNames(subs) ==
    IF subs = <<>> THEN <<>>
    ELSE (IF Head(subs) # "" THEN <<Head(subs)>> ELSE <<>>) \o SubredditNames(Tail(subs))
\* validate_multi: raise ... from e keeps the APIError as the cause
validate_multi(response) ==
    IF response.kind = "return"
    THEN [raised |-> "none", message |-> "none", cause |-> 0,
          subreddits |-> SubredditNames(response.subreddits)]
    ELSE IF response.err = "APIError"
         THEN [raised |-> "MultiValidationError", message |-> MultiError(response.status),
               cause |-> response.status, subreddits |-> <<>>]
         ELSE [raised |-> response.err, message |-> "none", cause |-> response.status,
               subreddits |-> <<>>]

\* fetch_comments: what self.client.get(endpoint, params) returned. A response is a
\* JSON array (is_list, with the kinds of its elements) or something else (an object,
\* null). Kinds of an element: "listing" is an object whose "data" is an object,
\* "no_data" an object without "data", "null_data" an object whose "data" is null,
\* "null" and "text" are no objects
ElementKinds == {"listing", "no_data", "null_data", "null", "text"}
CommentResponses ==
    { [is_list |-> FALSE, elems |-> <<>>] }
    \cup { [is_list |-> TRUE, elems |-> e] :
             e \in UNION { [1..n -> ElementKinds] : n \in 0..MaxElements } }
\* line 253: comment_listing.get("data", {}).get("children", []) raises
\* AttributeError when comment_listing, or its "data", has no get
HasChildren(kind) == kind \in {"listing", "no_data"}
\* fetch_comments lines 250-258
fetch_comments(response) ==
    IF response.is_list /\ Len(response.elems) >= 2
    THEN IF HasChildren(response.elems[2])
         THEN [raised |-> "none", value |-> response]
         ELSE [raised |-> "AttributeError", value |-> response]
    ELSE [raised |-> "none",
          value |-> IF response.is_list THEN response
                    ELSE [is_list |-> TRUE, elems |-> <<>>]]

\* no call of add_seen or add_seen_batch yet
NoStoreCall == [before |-> <<>>, fullnames |-> <<>>]

\* a request of a cycle: the endpoint, and the fullnames (/api/info) or the post
\* (comments) it is about
Request(endpoint, fullnames, id) == [endpoint |-> endpoint, fullnames |-> fullnames, id |-> id]
\* fetch_details_batch lines 209-215: the slices of the fullnames, one per request
RECURSIVE info_batches(_, _)
info_batches(fullnames, i) ==
    IF i >= Len(fullnames) THEN <<>>
    ELSE <<Slice(fullnames, i, i + MAX_IDS_PER_INFO_REQUEST)>>
         \o info_batches(fullnames, i + MAX_IDS_PER_INFO_REQUEST)
\* (mutation of detail_requests: the details are fetched whatever the configuration)
detail_requests_Always(fullnames, enabled) ==
    LET batches == info_batches(fullnames, 0)
    IN [i \in 1..Len(batches) |-> Request("info", batches[i], "")]
\* process_new_posts lines 287-289: the requests of fetch_details_batch, if enabled
detail_requests(fullnames, enabled) ==
    IF enabled THEN detail_requests_Always(fullnames, TRUE) ELSE <<>>
\* process_new_posts lines 294-311: the requests of the loop over new_items
RECURSIVE comment_requests(_, _)
comment_requests(new_items, enabled) ==
    IF new_items = <<>> THEN <<>>
    ELSE LET item == Head(new_items)
         IN (IF enabled /\ item.id # ""
             THEN <<Request("comments", <<item.name>>, item.id)>> ELSE <<>>)
            \o comment_requests(Tail(new_items), enabled)
\* where a cycle can be ended by an exception of a request (one of a comment fetch
\* is caught, line 309)
CycleFailures == {"none", "listing", "details"}
\* run_once lines 141-144: the requests of fetch_listing and of process_new_posts, in
\* the order they are made, up to the one that raises
cycle_requests(cycle) ==
    LET listing == <<Request("listing", <<>>, "")>>
        new_items == filter_new_posts(cycle.items, cycle.seen)
        names == [i \in 1..Len(new_items) |-> new_items[i].name]
        fullnames == SelectSeq(names, LAMBDA fn : fn # EmptyStr)
        details == detail_requests(fullnames, cycle.fetch_post_detail)
    IN IF cycle.fails = "listing" THEN listing
       ELSE IF new_items = <<>> THEN listing
       ELSE IF cycle.fails = "details" /\ details # <<>>
            THEN listing \o SubSeq(details, 1, 1)
       ELSE listing \o details \o comment_requests(new_items, cycle.fetch_comments)

\* the arguments are drawn; nothing was applied yet
InitFunctions ==
    /\ FreshState
    /\ IdleCycle
    /\ raised = "none"
    /\ now = 0
    /\ AuthIdle
    /\ ClientIdle
    /\ RequestIdle
    /\ RunIdle
    /\ PublishIdle
    /\ ThreadsIdle
    /\ fn_out = <<>>
    /\ \/ op = "call extract_post_data" /\ fn_in \in PostDatas
       \/ /\ op = "call fetch_details_batch"
          /\ fn_in \in [n : 0..MaxFullnames, omit : {0, 3, 7}]
       \/ /\ op = "call process_new_posts"
          /\ \E n \in 0..MaxProcessed :
               fn_in \in [items : [1..n -> ProcessItems],
                          seen : {{}, {<<"b">>}},
                          outcomes : [1..n -> CommentOutcomes],
                          fetch_comments : BOOLEAN]
       \/ op = "call validate_multi" /\ fn_in \in MultiResponses
       \/ op = "call fetch_comments" /\ fn_in \in CommentResponses
       \/ /\ op = "call run_once"
          /\ \E n \in 0..MaxProcessed :
               fn_in \in [items : [1..n -> ProcessItems],
                          seen : {{}, {<<"b">>}},
                          fetch_post_detail : BOOLEAN,
                          fetch_comments : BOOLEAN,
                          fails : CycleFailures]
       \/ op = "new State" /\ fn_in = NoStoreCall

beyondFunctions == <<stateVars, cycleVars, raised, now, authVars, clientVars,
                     requestVars, runVars, publishVars, threadVars, fn_in>>

\* extract_post_data(listing_item) of an item without detail
ExtractPostDataCall ==
    /\ op = "call extract_post_data"
    /\ fn_out' = extract_post_data(fn_in)
    /\ op' = "extract_post_data"
    /\ UNCHANGED beyondFunctions

\* Fetcher.fetch_details_batch(fullnames)
FetchDetailsBatchCall ==
    /\ op = "call fetch_details_batch"
    /\ fn_out' = fetch_details_batch(FullnamesUpTo(fn_in.n), 0, fn_in.omit, NoDetails)
    /\ op' = "fetch_details_batch"
    /\ UNCHANGED beyondFunctions

\* Fetcher.process_new_posts(listing_items, seen_fullnames) with fetch_post_detail
\* off, and what run_once does with the list it returns (lines 153-157)
ProcessNewPostsCall ==
    /\ op = "call process_new_posts"
    /\ LET posts == process_new_posts(fn_in.items, fn_in.seen)
           new_items == filter_new_posts(fn_in.items, fn_in.seen)
           \* the outcome of the comment fetch belongs to the listing item
           at(i) == CHOOSE j \in 1..Len(fn_in.items) :
                       /\ fn_in.items[j] = new_items[i]
                       /\ Len(filter_new_posts(SubSeq(fn_in.items, 1, j), fn_in.seen)) = i
           step == [i \in 1..Len(posts) |->
                       WithComments(posts[i], fn_in.outcomes[at(i)], fn_in.fetch_comments)]
           failed == { i \in 1..Len(posts) : step[i].raised # "none" }
       IN  IF failed = {}
           THEN LET out == [i \in 1..Len(posts) |->
                               [fullname |-> posts[i].fullname, id |-> posts[i].id,
                                comments |-> step[i].comments, item |-> at(i)]]
                IN fn_out' = [raised |-> "none", posts |-> out, written |-> out,
                              seen |-> add_seen_batch(<<>>,
                                         [i \in 1..Len(out) |-> out[i].fullname])]
           ELSE fn_out' = [raised |-> step[CHOOSE i \in failed :
                                              \A j \in failed : i <= j].raised,
                           posts |-> <<>>, written |-> <<>>, seen |-> <<>>]
    /\ op' = "process_new_posts"
    /\ UNCHANGED beyondFunctions

\* validate_multi(client, config)
ValidateMultiCall ==
    /\ op = "call validate_multi"
    /\ fn_out' = validate_multi(fn_in)
    /\ op' = "validate_multi"
    /\ UNCHANGED beyondFunctions

\* Fetcher.fetch_comments(post_id)
FetchCommentsCall ==
    /\ op = "call fetch_comments"
    /\ fn_out' = fetch_comments(fn_in)
    /\ op' = "fetch_comments"
    /\ UNCHANGED beyondFunctions

\* run_once: the requests of one cycle
RunOnceCall ==
    /\ op = "call run_once"
    /\ fn_out' = cycle_requests(fn_in)
    /\ op' = "run_once"
    /\ UNCHANGED beyondFunctions

StoreOps == {"new State", "add_seen", "add_seen_batch"}
\* what the calls on a State never touch (fn_out is its _seen_fullnames, fn_in the
\* list before the last call and the argument of that call)
beyondStoreCall == <<stateVars, cycleVars, raised, now, authVars, clientVars,
                     requestVars, runVars, publishVars, threadVars>>

\* State.add_seen(fullname) on the list the calls before left
AddSeenCall(fullname) ==
    /\ op \in StoreOps
    /\ fn_in' = [before |-> fn_out, fullnames |-> <<fullname>>]
    /\ fn_out' = add_seen(fn_out, fullname)
    /\ op' = "add_seen"
    /\ UNCHANGED beyondStoreCall

\* State.add_seen_batch(fullnames) on the list the calls before left
AddSeenBatchCall(fullnames) ==
    /\ op \in StoreOps
    /\ fn_in' = [before |-> fn_out, fullnames |-> fullnames]
    /\ fn_out' = add_seen_batch(fn_out, fullnames)
    /\ op' = "add_seen_batch"
    /\ UNCHANGED beyondStoreCall

NextFunctions ==
    \/ ExtractPostDataCall
    \/ FetchCommentsCall
    \/ \E fullname \in Fullnames : AddSeenCall(fullname)
    \/ \E fullnames \in SeqsUpTo(Fullnames, MaxBatch) : AddSeenBatchCall(fullnames)
    \/ FetchDetailsBatchCall
    \/ ProcessNewPostsCall
    \/ RunOnceCall
    \/ ValidateMultiCall

SpecFunctions == InitFunctions /\ [][NextFunctions]_vars

\* the requests of fetch_details_batch, one after the other
RECURSIVE Flatten(_)
Flatten(seqs) == IF seqs = <<>> THEN <<>> ELSE Head(seqs) \o Flatten(Tail(seqs))
Glue(x, y) == IF x = "" THEN y ELSE IF y = "" THEN x ELSE x \o "|" \o y

\* C25: process_new_posts returns normally whatever the comment fetches of its posts
\* did: one post per new item, in order; a post has comments exactly when comments are
\* enabled, it has an id and its fetch returned, and is returned without comments when
\* the fetch raised; all returned posts are written and marked seen alike.
C25_CommentFailureCaught ==
    op = "process_new_posts" =>
        LET new_items == filter_new_posts(fn_in.items, fn_in.seen)
        IN  /\ fn_out.raised = "none"
            /\ Len(fn_out.posts) = Len(new_items)
            /\ \A i \in 1..Len(new_items) :
                  LET post == fn_out.posts[i]
                  IN  /\ post.fullname = new_items[i].name
                      /\ fn_in.items[post.item] = new_items[i]
                      /\ post.comments # None <=>
                            /\ fn_in.fetch_comments /\ post.id # ""
                            /\ fn_in.outcomes[post.item] = "comments"
            /\ fn_out.written = fn_out.posts
            /\ fn_out.seen = add_seen_batch(<<>>, [i \in 1..Len(new_items) |->
                                                     new_items[i].name])

\* three new posts, the comment fetch of the second raised APIError: it is returned
\* without comments between two posts that have theirs
C25_Witness ==
    /\ op = "process_new_posts" /\ fn_in.fetch_comments
    /\ Len(fn_out.posts) = 3
    /\ fn_in.outcomes = <<"comments", "APIError", "comments">>
    /\ fn_out.posts[1].comments # None
    /\ fn_out.posts[2].comments = None /\ fn_out.posts[2].id # ""
    /\ fn_out.posts[3].comments # None
    /\ Len(fn_out.written) = 3

\* C26: validate_multi turns an APIError of client.get into a MultiValidationError that
\* keeps it as its cause, with the message "not found" for status 404, "access denied"
\* for 403 and the wrapping message for every other APIError; when the call returns,
\* it returns the names of the subreddits in the order of the response.
C26_ValidationMapping ==
    op = "validate_multi" =>
        /\ (fn_in.kind = "raise" /\ fn_in.err = "APIError") =>
              /\ fn_out.raised = "MultiValidationError"
              /\ fn_out.cause = fn_in.status
              /\ fn_in.status = 404 => fn_out.message = "not found"
              /\ fn_in.status = 403 => fn_out.message = "access denied"
              /\ fn_in.status \notin {403, 404} => fn_out.message = "failed to validate"
        /\ fn_in.kind = "return" =>
              /\ fn_out.raised = "none"
              /\ fn_out.subreddits = SelectSeq(fn_in.subreddits, LAMBDA s : s # "")

\* the feed does not exist: APIError with status 404
C26_Witness ==
    /\ op = "validate_multi" /\ fn_in.err = "APIError" /\ fn_in.status = 404
    /\ fn_out.raised = "MultiValidationError" /\ fn_out.message = "not found"

\* C28: fetch_details_batch over n fullnames sends ceil(n / 100) requests, none empty
\* and none with more than 100 ids, which one after the other are the fullnames in the
\* order given; the map returned has a key for every fullname some response names.
C28_Chunking ==
    op = "fetch_details_batch" =>
        LET n == fn_in.n
            requests == fn_out.requests
        IN  /\ Len(requests) = (n + 99) \div 100
            /\ \A r \in 1..Len(requests) : Len(requests[r]) \in 1..100
            /\ Flatten(requests) = FullnamesUpTo(n)
            /\ DOMAIN fn_out.details
                  = { f \in 1..n : fn_in.omit = 0 \/ f % fn_in.omit # 0 }

\* 150 fullnames: a request of 100 and one of 50, and 150 keys
C28_Witness ==
    /\ op = "fetch_details_batch" /\ fn_in.n = 150 /\ fn_in.omit = 0
    /\ Len(fn_out.requests) = 2
    /\ Len(fn_out.requests[1]) = 100 /\ Len(fn_out.requests[2]) = 50
    /\ Cardinality(DOMAIN fn_out.details) = 150

\* C29: the PostData built from a post is flagged exactly when its author is
\* "[deleted]", its selftext is "[deleted]" or "[removed]", or its removal category
\* is not empty; the hint is then the reasons that hold, author_deleted, text_deleted,
\* text_removed, removed_by_<category>, in this order and joined by "|", and is null
\* when none holds.
C29_RemovedAndHint ==
    op = "extract_post_data" =>
        LET author_deleted == fn_in.author = "[deleted]"
            text_deleted == fn_in.selftext = "[deleted]"
            text_removed == fn_in.selftext = "[removed]"
            by_category == fn_in.removed_by_category # ""
            expected ==
                Glue(Glue(Glue(IF author_deleted THEN "author_deleted" ELSE "",
                               IF text_deleted THEN "text_deleted" ELSE ""),
                          IF text_removed THEN "text_removed" ELSE ""),
                     IF by_category THEN "removed_by_" \o fn_in.removed_by_category
                     ELSE "")
        IN  /\ fn_out.is_deleted_or_removed
                  = (author_deleted \/ text_deleted \/ text_removed \/ by_category)
            /\ fn_out.removed_hint
                  = (IF fn_out.is_deleted_or_removed THEN Some(expected) ELSE None)
            /\ fn_out.is_deleted_or_removed => expected # ""

\* three of the four reasons at once
C29_Witness ==
    /\ op = "extract_post_data"
    /\ fn_in.author = "[deleted]" /\ fn_in.selftext = "[removed]"
    /\ fn_in.removed_by_category = "moderator"
    /\ fn_out.removed_hint = Some("author_deleted|text_removed|removed_by_moderator")

(* ---- several threads in RedditClient.request: the rate-limit lock ---- *)
\* (a lock that lets every caller in)
RateLimitLockFree_Always == TRUE
\* threading.Lock: acquire returns only when nobody holds the lock
RateLimitLockFree == rl_lock = NoHolder

NoLocal == [wake |-> 0, times |-> <<>>]
\* the positions of a thread at which it is inside a with self._rate_limit_lock block
InLock == {"wait_locked", "wait_sleeping", "update_locked"}

InitThreads ==
    /\ FreshState
    /\ IdleCycle
    /\ raised = "none"
    /\ op = "init"
    /\ now = ClientEpoch
    /\ AuthIdle
    /\ RequestIdle
    /\ RunIdle
    /\ PublishIdle
    /\ FnIdle
    /\ respect_headers \in BOOLEAN
    /\ last_request_time = 0
    /\ request_times = <<>>
    /\ remaining_requests = None
    /\ reset_time = None
    /\ released = <<>>
    /\ rl_lock = NoHolder
    /\ lpc = [t \in Callers |-> "idle"]
    /\ local = [t \in Callers |-> NoLocal]

\* what the actions of the threads never touch
beyondThreads == <<stateVars, cycleVars, raised, authVars, requestVars, runVars,
                   publishVars, fnVars, respect_headers>>

\* line 101 / line 150: with self._rate_limit_lock, entered by a thread that is about
\* to send (part "wait") or has its response (part "update", lines 147-148: only
\* with header throttling enabled)
AcquireRateLimitLock(t, part) ==
    /\ lpc[t] = (IF part = "wait" THEN "idle" ELSE "sent")
    /\ part = "wait" => Len(released) < MaxRequests
    /\ part = "update" => respect_headers
    /\ RateLimitLockFree
    /\ rl_lock' = t
    /\ lpc' = [lpc EXCEPT ![t] = part \o "_locked"]
    /\ op' = "acquire"
    /\ UNCHANGED <<local, now, last_request_time, request_times, remaining_requests,
                   reset_time, released, beyondThreads>>

\* lines 102-139: the thread reads the clock and the limiter state and sleeps as the
\* three checks tell it; wake is the value of now after the last sleep
ThreadChecks(t, late) ==
    /\ lpc[t] = "wait_locked"
    /\ LET t1 == AfterSafetyInterval(now, late)
           t2 == AfterQpm(t1, late)
           t3 == AfterServerQuota(t2, late)
       IN /\ t3 <= MaxClientTime
          /\ local' = [local EXCEPT ![t] = [wake |-> t3, times |-> TimesAfterQpm(t1, t2)]]
    /\ lpc' = [lpc EXCEPT ![t] = "wait_sleeping"]
    /\ op' = "check"
    /\ UNCHANGED <<rl_lock, now, last_request_time, request_times, remaining_requests,
                   reset_time, released, beyondThreads>>

\* lines 141-143: the request time is recorded and the block is left
ThreadRecords(t) ==
    /\ lpc[t] = "wait_sleeping"
    /\ request_times' = Append(local[t].times, local[t].wake)
    /\ last_request_time' = local[t].wake
    /\ released' = Append(released, local[t].wake)
    /\ now' = IF now < local[t].wake THEN local[t].wake ELSE now
    /\ rl_lock' = NoHolder
    /\ lpc' = [lpc EXCEPT ![t] = "sent"]
    /\ local' = [local EXCEPT ![t] = NoLocal]
    /\ op' = "record"
    /\ UNCHANGED <<remaining_requests, reset_time, beyondThreads>>

\* lines 151-172: the headers of the response are stored and the block is left
ThreadUpdates(t, remaining, reset) ==
    /\ lpc[t] = "update_locked"
    /\ remaining_requests' = HeaderUpdate(remaining_requests, remaining, remaining.val)
    /\ reset_time' = HeaderUpdate(reset_time, reset, now + 1000 * reset.val)
    /\ rl_lock' = NoHolder
    /\ lpc' = [lpc EXCEPT ![t] = "idle"]
    /\ op' = "update"
    /\ UNCHANGED <<local, now, last_request_time, request_times, released,
                   beyondThreads>>

\* request() returns without looking at the headers (lines 147-148: throttling by
\* headers is off)
ThreadReturns(t) ==
    /\ lpc[t] = "sent"
    /\ ~respect_headers
    /\ lpc' = [lpc EXCEPT ![t] = "idle"]
    /\ op' = "return"
    /\ UNCHANGED <<rl_lock, local, now, last_request_time, request_times,
                   remaining_requests, reset_time, released, beyondThreads>>

\* time passes while no thread is inside its sleep: the clock reaches `idle`
\* milliseconds after the last recorded request
ThreadTick(idle) ==
    /\ \A t \in Callers : lpc[t] # "wait_sleeping"
    /\ LastRelease + idle > now
    /\ LastRelease + idle <= MaxClientTime
    /\ now' = LastRelease + idle
    /\ op' = "tick"
    /\ UNCHANGED <<rl_lock, lpc, local, last_request_time, request_times,
                   remaining_requests, reset_time, released, beyondThreads>>

NextThreads ==
    \/ \E t \in Callers, part \in {"wait", "update"} : AcquireRateLimitLock(t, part)
    \/ \E t \in Callers, late \in {0, 100} : ThreadChecks(t, late)
    \/ \E t \in Callers : ThreadRecords(t)
    \/ \E t \in Callers, h \in QuotaHeaders : ThreadUpdates(t, h.remaining, h.reset)
    \/ \E t \in Callers : ThreadReturns(t)
    \/ \E idle \in {200, 40000} : ThreadTick(idle)

SpecThreads == InitThreads /\ [][NextThreads]_vars

\* C30: a thread that is inside one of the two blocks that read and write the
\* rate-limiter state holds the rate-limit lock, so at most one thread is inside at a
\* time; and over the requests of all threads in the order they were recorded, each
\* is at least safety_min_interval_ms after the one before it and at most max_qpm lie
\* in any 60 seconds.
C30_LockedLimiter ==
    /\ \A t \in Callers : lpc[t] \in InLock => rl_lock = t
    /\ \A i \in 2..Len(released) : released[i] - released[i - 1] >= safety_min_interval_ms
    /\ \A i \in (max_qpm + 1)..Len(released) :
          released[i] >= released[i - max_qpm] + WindowMs
    /\ Len(request_times) <= max_qpm

\* one thread waits for the lock while the other sleeps inside the block, and the
\* requests recorded so far came from both
C30_Witness ==
    /\ lpc["t1"] = "wait_sleeping" /\ lpc["t2"] = "idle" /\ rl_lock = "t1"
    /\ Len(released) = 2
    /\ local["t1"].wake >= released[1] + WindowMs
    /\ op = "check"

\* C34 as stated: fetch_comments never raises and returns the response it received,
\* whatever its shape.
C34_ReturnsWhatItReceived ==
    op = "fetch_comments" => fn_out.raised = "none" /\ fn_out.value = fn_in

\* C39: after every add_seen and add_seen_batch the seen list holds no fullname
\* twice; a call whose fullnames are all in the list already leaves the list as it
\* was; and a call leaves the entries it keeps in their order, ahead of the ones it
\* appends, which were not in the list.
C39_NoDuplicates ==
    op \in {"add_seen", "add_seen_batch"} =>
        /\ NoDup(fn_out)
        /\ (\A i \in 1..Len(fn_in.fullnames) : IsIn(fn_in.fullnames[i], fn_in.before))
              => fn_out = fn_in.before
        /\ \E k \in 0..Len(fn_in.before), m \in 0..Len(fn_out) :
              /\ SubSeq(fn_out, 1, m) = SubSeq(fn_in.before, k + 1, Len(fn_in.before))
              /\ \A i \in (m + 1)..Len(fn_out) :
                    /\ ~IsIn(fn_out[i], fn_in.before)
                    /\ IsIn(fn_out[i], fn_in.fullnames)

\* a batch that names the first entry of a full list and repeats it: the list stays
C39_Witness ==
    /\ op = "add_seen_batch"
    /\ Len(fn_in.before) = max_seen_keep
    /\ fn_in.fullnames = <<fn_in.before[1], fn_in.before[1]>>
    /\ fn_out = fn_in.before

(* ---- request() under a scheduler that lets the calling thread run ---- *)
\* the thread in request() goes on running: every time.sleep ends, and every HTTP
\* call ends with a response or with the exception of its timeout (timeout_sec)
SpecRequestLive == SpecRequest /\ WF_vars(NextRequest)

\* C35: a call of request() ends, by returning or raising, and sends at most
\* retries + 2 times: one first send, at most retries sends after a backoff (one
\* counter for 429, 5xx, timeouts and connection errors, which never goes down in
\* the call), and at most one send after the invalidation the first 401 causes.
C35_Terminates ==
    /\ [](/\ stats.sends <= retries + 2
          /\ stats.backoffs <= retries
          /\ stats.invalidations <= 1
          /\ stats.sends <= 1 + stats.backoffs + stats.invalidations
          /\ attempt = stats.backoffs
          /\ rpc = "done" => outcome.kind \in {"return", "raise"})
    /\ [][attempt' >= attempt]_vars
    /\ (rpc # "idle") ~> (rpc = "done")

\* a call that ended with its send number retries + 2: a 401 among the retried answers
C35_Witness ==
    /\ rpc = "done"
    /\ stats.sends = retries + 2
    /\ stats.backoffs = retries /\ stats.invalidations = 1

\* the value a quota header gives, when it is a number
Parsed(header) == header.kind = "number"

\* C33: with header throttling enabled, every response request() receives, whatever
\* its status, stores the number of each X-Ratelimit header it carries and leaves the
\* stored value alone for a header that is absent or not a number; nothing else in
\* request() changes the stored quota; with header throttling disabled the stored
\* quota never changes and the rate limiter releases a request when the interval and
\* QPM steps are done.
C33_QuotaFromEveryResponse ==
    [][ /\ rpc # "send" =>
              remaining_requests' = remaining_requests /\ reset_time' = reset_time
        /\ ~respect_headers =>
              /\ remaining_requests' = remaining_requests /\ reset_time' = reset_time
              /\ rpc = "limit" => now' = AfterQpm(AfterSafetyInterval(now, 0), 0)
        /\ (respect_headers /\ rpc = "send") =>
              LET r == Sent'.response
              IN IF r.exc # "none"
                 THEN remaining_requests' = remaining_requests
                      /\ reset_time' = reset_time
                 ELSE /\ remaining_requests' =
                            IF Parsed(r.quota.remaining) THEN <<r.quota.remaining.val>>
                            ELSE remaining_requests
                      /\ reset_time' =
                            IF Parsed(r.quota.reset)
                            THEN <<now + 1000 * r.quota.reset.val>>
                            ELSE reset_time
      ]_vars

\* a 404 whose headers were numbers, stored, after a 503 whose headers were not
C33_Witness ==
    /\ respect_headers
    /\ HasLastPass /\ events[1].response.status = 503
    /\ events[1].response.quota = UnparsedQuota
    /\ JustSent /\ Sent.response.status = 404
    /\ Parsed(Sent.response.quota.remaining)
    /\ remaining_requests = <<Sent.response.quota.remaining.val>>
    /\ reset_time = <<Sent.at + 1000 * Sent.response.quota.reset.val>>

\* the step is the end of an exchange of caller c
ExchangeEnds(c) == tpc[c] = "exchanging" /\ tpc'[c] = "idle"

\* C40: an exchange that fails leaves the token cache as get_access_token found it
\* (an old token or none); the cache changes only to the complete token a successful
\* exchange returned to its caller, or to empty in invalidate_token.
C40_CacheWholesale ==
    [][ /\ \A c \in Callers :
              (ExchangeEnds(c) /\ result'[c].kind = "raise") =>
                  token_info' = token_info /\ token_info' = call[c].cached
        /\ token_info' # token_info =>
              \/ \E c \in Callers :
                    /\ ExchangeEnds(c)
                    /\ result'[c].kind = "token"
                    /\ token_info' = <<result'[c].token>>
                    /\ DOMAIN result'[c].token = {"access_token", "expires_at"}
                    /\ result'[c].token.access_token = exchanges
                    /\ result'[c].token.expires_at > now
              \/ /\ token_info' = NoToken
                 /\ invalidated' = [pending |-> TRUE, token |-> token_info]
                 /\ tpc' = tpc
      ]_vars

\* an exchange failed for a caller that found an expired token: the token is still there
C40_Witness ==
    \E c \in Callers :
        /\ result[c].kind = "raise"
        /\ result[c].cached # NoToken
        /\ ~FoundFresh(result[c])
        /\ token_info = result[c].cached
        /\ tpc[c] = "idle"

(***************************************************************************)
(* Specification of the poll loop over a feed of two posts: the cycles of  *)
(* cmd_run with their failures, the purge, the shutdown and restarts.      *)
(***************************************************************************)
\* the posts of the feed: one deleted by its author, one whose name needs escaping
WatchedItems ==
    { [name |-> <<"a">>, id |-> "p", author |-> "[deleted]"],
      [name |-> <<"\"", "n">>, id |-> "p", author |-> "u"] }

NextCycle ==
    \/ \E items \in SeqsUpTo(WatchedItems, MaxCycleListing) : FetchListing(items)
    \/ \E err \in RequestErrors : FetchListingFails(err)
    \/ ProcessNewPosts
    \/ \E err \in RequestErrors : ProcessNewPostsFails(err)
    \/ NoNewPosts
    \/ WritePosts
    \/ \E k \in 0..MaxCycleListing : WritePostsFails(k)
    \/ MarkSeen
    \/ SaveState
    \/ SaveStateFails
    \/ PurgeNotDue
    \/ Purge
    \/ \E step \in {"write", "replace"} : PurgeFails(step)
    \/ Shutdown
    \/ Restart
    \/ Sleep

SpecCycle == Init /\ [][NextCycle]_vars

\* a record of fn is one the compliance purge drops from the output files
Purgeable(fn) ==
    \E item \in CycleItems :
        item.name = fn /\ extract_post_data(item).is_deleted_or_removed
\* the last n records of the output files
LastRecords(n) == SubSeq(posts_file, Len(posts_file) - n + 1, Len(posts_file))

\* C36: a fullname enters the seen list only in the add_seen_batch that follows the
\* write_posts of its record (or by loading the state file); the state file only
\* ever receives the seen list in memory, after that step; so every fullname in the
\* list or in the file has a record in the output files, unless the purge can have
\* dropped it since.
C36_WriteBeforeMark ==
    /\ [](\A fn \in SeenSet(seen_fullnames) \cup SeenSet(LoadedSeen(state_file)) :
              RecordsOf(fn) >= 1 \/ Purgeable(fn))
    /\ [][ /\ seen_fullnames' # seen_fullnames =>
                 \/ /\ op = "write_posts" /\ op' = "add_seen_batch"
                    /\ posts_file' = posts_file
                    /\ Len(posts_file) >= Len(new_posts)
                    /\ FullnamesOf(LastRecords(Len(new_posts))) = FullnamesOf(new_posts)
                    /\ SeenSet(seen_fullnames') \subseteq
                          SeenSet(seen_fullnames) \cup SeenSet(FullnamesOf(new_posts))
                 \/ op' = "restart" /\ seen_fullnames' = LoadedSeen(state_file)
           /\ state_file' # state_file =>
                 /\ op' \in {"save", "shutdown"}
                 /\ LoadedSeen(state_file') = seen_fullnames
                 /\ seen_fullnames' = seen_fullnames
           /\ op' = "write_posts" => op = "process_new_posts"
           /\ (op' = "save" /\ op # "save") => op \in {"add_seen_batch", "update_last_run"}
         ]_vars

\* a cycle that wrote a record, marked its fullname and saved the state
C36_Witness ==
    /\ op = "save"
    /\ seen_fullnames # <<>>
    /\ LoadedSeen(state_file) = seen_fullnames
    /\ \A fn \in SeenSet(seen_fullnames) : RecordsOf(fn) >= 1
    /\ FullnamesOf(LastRecords(Len(new_posts))) = FullnamesOf(new_posts)
    /\ new_posts # <<>>

\* the step is a raise of fetch_listing or of process_new_posts
FetchRaises ==
    /\ pc \in {"idle", "fetched"}
    /\ op' \in {"fetch_listing", "process_new_posts"}
    /\ raised' \in RequestErrors
    /\ pc' \in {"idle", "exited"}
Persistent == <<seen_fullnames, last_run_utc, state_file, posts_file>>

\* C37: the steps of a cycle up to a raise of fetch_listing or process_new_posts (the
\* listing fetch that returned, the raise) leave the seen list, last_run_utc, the state
\* file and the output files unchanged, so the filter gives for the listing what it
\* gave before the raise: its new items are still new.
C37_FailedFetchChangesNothing ==
    [][ /\ FetchRaises =>
              /\ UNCHANGED Persistent
              /\ pc = "fetched" =>
                    /\ filter_new_posts(listing_items, SeenSet(seen_fullnames')) # <<>>
                    /\ filter_new_posts(listing_items, SeenSet(seen_fullnames'))
                          = filter_new_posts(listing_items, SeenSet(seen_fullnames))
        /\ (pc = "idle" /\ pc' = "fetched") => UNCHANGED Persistent
      ]_vars

\* process_new_posts raised in a cycle that followed a complete one: the state of
\* that cycle is there, and the item of the listing is still new
C37_Witness ==
    /\ op = "process_new_posts" /\ raised = "APIError" /\ pc = "idle"
    /\ seen_fullnames # <<>> /\ posts_file # <<>>
    /\ LoadedSeen(state_file) = seen_fullnames
    /\ filter_new_posts(listing_items, SeenSet(seen_fullnames)) # <<>>

\* the step ends a cycle: run_once returned or raised
CycleEnds == wpc \in {"fetch", "write", "save"} /\ wpc' \in {"after_cycle", "exited"}

\* C32 as stated: every cycle of the loop ended with a save of the state, and a run
\* that was asked to shut down exits only after the final save.
C32_SavedEveryCycle ==
    /\ (Command = "run" /\ wpc \in {"after_cycle", "poll_wait"}) => did.saves = did.cycles
    /\ (Command = "run" /\ did.validated /\ shutdown_requested /\ wpc = "exited") =>
          op = "final_save"

\* C32 (amended): a cycle that run_once completes, one without a new post included,
\* ends with the save of the state (a cycle that raises ends without one); and
\* cmd_run returns 0 only from the final save, which it reaches when the loop is left
\* on the shutdown flag.
C32_SavedAfterCompletedCycle ==
    [][ /\ (CycleEnds /\ raised' = "none") =>
              /\ wpc = "save" /\ did'.saves = did.saves + 1
              /\ did'.fetches = did.fetches /\ did.fetches >= 1
        /\ (CycleEnds /\ raised' # "none" /\ wpc # "save") => did'.saves = did.saves
        /\ (Command = "run" /\ wpc # "exited" /\ wpc' = "exited" /\ exit_code' = Some(0)) =>
              /\ wpc = "final_save" /\ shutdown_requested
              /\ did'.saves = did.saves + 1
        /\ (wpc = "loop_test" /\ wpc' # "loop_test") =>
              wpc' = (IF shutdown_requested THEN "final_save" ELSE "fetch")
      ]_vars

\* a run of two cycles, the second without a new post, both saved, and the final save
C32_Witness ==
    /\ Command = "run" /\ wpc = "exited" /\ exit_code = Some(0)
    /\ did.cycles = 2 /\ did.fetches = 2 /\ did.writes = 1 /\ did.saves = 3

\* the surviving items of the cycle, in listing order
Surviving == filter_new_posts(fn_in.items, fn_in.seen)
\* a request of the cycle raised: the listing fetch, or the detail fetch that was made
CutShort ==
    \/ fn_in.fails = "listing"
    \/ fn_in.fails = "details" /\ fn_in.fetch_post_detail /\ Surviving # <<>>
\* the positions of the requests of each kind in the requests of the cycle
Positions(endpoint) == { i \in 1..Len(fn_out) : fn_out[i].endpoint = endpoint }

NoPass == [calls |-> 0, attempt |-> 0, refreshed |-> FALSE, act |-> "none"]
AnyToken == [access_token |-> 0, expires_at |-> 0]
\* what the server does to the sends of these threads
LockResponses ==
    { ApiResponse(200, NoRetryAfter, UnparsedQuota, "json"),
      ApiResponse(401, NoRetryAfter, UnparsedQuota, "none"),
      ApiResponse(503, NoRetryAfter, UnparsedQuota, "none"),
      ApiFailure("Timeout") }

InitLocks ==
    /\ FreshState
    /\ IdleCycle
    /\ raised = "none"
    /\ op = "init"
    /\ now = ClientEpoch
    /\ AuthIdle
    /\ RequestIdle
    /\ RunIdle
    /\ PublishIdle
    /\ FnIdle
    /\ respect_headers \in BOOLEAN
    /\ last_request_time = 0
    /\ request_times = <<>>
    /\ remaining_requests = None
    /\ reset_time = None
    /\ released = <<>>
    /\ rl_lock = NoHolder
    /\ lpc = [t \in Callers |-> "idle"]
    /\ local = [t \in Callers |-> NoPass]

\* what the steps of the threads never touch
beyondLocks == <<stateVars, cycleVars, raised, now, tpc, call, result, exchanges,
                 invalidated, clientVars, requestVars, runVars, publishVars, fnVars>>

\* lines 224-225: a thread enters request()
LockCall(t) ==
    /\ lpc[t] = "idle"
    /\ local[t].calls < MaxLockCalls
    /\ local' = [local EXCEPT ![t] = [NoPass EXCEPT !.calls = local[t].calls + 1]]
    /\ lpc' = [lpc EXCEPT ![t] = "want_wait"]
    /\ op' = "call"
    /\ UNCHANGED <<rl_lock, auth_lock, token_info, beyondLocks>>

\* line 229, _wait_for_rate_limit line 101: with self._rate_limit_lock
EnterWait(t) ==
    /\ lpc[t] = "want_wait"
    /\ RateLimitLockFree
    /\ rl_lock' = t
    /\ lpc' = [lpc EXCEPT ![t] = "in_wait"]
    /\ op' = "enter_wait"
    /\ UNCHANGED <<auth_lock, token_info, local, beyondLocks>>

\* (mutation of LeaveWait: the rate-limit lock is still held when request() goes on)
LeaveWait_KeepsLock(t) ==
    /\ lpc[t] = "in_wait"
    /\ lpc' = [lpc EXCEPT ![t] = "want_auth"]
    /\ op' = "leave_wait"
    /\ UNCHANGED <<rl_lock, auth_lock, token_info, local, beyondLocks>>

\* _wait_for_rate_limit lines 102-143: its sleeps are over, the block is left
LeaveWait(t) ==
    /\ lpc[t] = "in_wait"
    /\ rl_lock' = NoHolder
    /\ lpc' = [lpc EXCEPT ![t] = "want_auth"]
    /\ op' = "leave_wait"
    /\ UNCHANGED <<auth_lock, token_info, local, beyondLocks>>

\* line 232, get_access_token line 148: with self._lock
EnterAuth(t) ==
    /\ lpc[t] = "want_auth"
    /\ LockFree
    /\ auth_lock' = t
    /\ lpc' = [lpc EXCEPT ![t] = "in_auth"]
    /\ op' = "enter_auth"
    /\ UNCHANGED <<rl_lock, token_info, local, beyondLocks>>

\* get_access_token lines 150-160: the cached token is returned (fresh), or the
\* exchange is made and its token cached (ok) or AuthError leaves request()
LeaveAuth(t, fresh, ok) ==
    /\ lpc[t] = "in_auth"
    /\ fresh => token_info # NoToken
    /\ auth_lock' = NoHolder
    /\ token_info' = IF ~fresh /\ ok THEN <<AnyToken>> ELSE token_info
    /\ lpc' = [lpc EXCEPT ![t] = IF fresh \/ ok THEN "sending" ELSE "idle"]
    /\ local' = [local EXCEPT ![t] =
                    IF fresh \/ ok THEN @ ELSE [NoPass EXCEPT !.calls = local[t].calls]]
    /\ op' = "leave_auth"
    /\ UNCHANGED <<rl_lock, beyondLocks>>

\* where request() goes after an answer: lines 252-331
AfterAnswer(act) ==
    IF act = "refresh" THEN "want_invalidate"
    ELSE IF act = "retry" THEN "want_wait"
    ELSE "idle"
\* the locals of request() after an answer: attempt, token_refreshed (a call that
\* ended has none)
Noted(pass, act) ==
    IF AfterAnswer(act) = "idle" THEN [NoPass EXCEPT !.calls = pass.calls]
    ELSE [pass EXCEPT !.attempt = IF act = "retry" THEN @ + 1 ELSE @,
                      !.refreshed = @ \/ act = "refresh"]

\* lines 238-249: the send is answered; the headers of a response are stored under
\* the rate-limit lock when header throttling is on
Answered(t, response) ==
    /\ lpc[t] = "sending"
    /\ LET act == ResponseAction(response, local[t].attempt, local[t].refreshed).act
       IN IF response.exc = "none" /\ respect_headers
          THEN /\ local' = [local EXCEPT ![t].act = act]
               /\ lpc' = [lpc EXCEPT ![t] = "want_update"]
          ELSE /\ local' = [local EXCEPT ![t] = Noted(local[t], act)]
               /\ lpc' = [lpc EXCEPT ![t] = AfterAnswer(act)]
    /\ op' = "answer"
    /\ UNCHANGED <<rl_lock, auth_lock, token_info, beyondLocks>>

\* _update_rate_limit_from_headers line 150: with self._rate_limit_lock
EnterUpdate(t) ==
    /\ lpc[t] = "want_update"
    /\ RateLimitLockFree
    /\ rl_lock' = t
    /\ lpc' = [lpc EXCEPT ![t] = "in_update"]
    /\ op' = "enter_update"
    /\ UNCHANGED <<auth_lock, token_info, local, beyondLocks>>

\* lines 151-172: the block is left; request() goes on with the status of the answer
LeaveUpdate(t) ==
    /\ lpc[t] = "in_update"
    /\ rl_lock' = NoHolder
    /\ lpc' = [lpc EXCEPT ![t] = AfterAnswer(local[t].act)]
    /\ local' = [local EXCEPT ![t] = [Noted(local[t], local[t].act) EXCEPT !.act = "none"]]
    /\ op' = "leave_update"
    /\ UNCHANGED <<auth_lock, token_info, beyondLocks>>

\* line 259, invalidate_token line 168: with self._lock
EnterInvalidate(t) ==
    /\ lpc[t] = "want_invalidate"
    /\ LockFree
    /\ auth_lock' = t
    /\ lpc' = [lpc EXCEPT ![t] = "in_invalidate"]
    /\ op' = "enter_invalidate"
    /\ UNCHANGED <<rl_lock, token_info, local, beyondLocks>>

\* invalidate_token line 170, then line 261: continue
LeaveInvalidate(t) ==
    /\ lpc[t] = "in_invalidate"
    /\ token_info' = InvalidatedCache
    /\ auth_lock' = NoHolder
    /\ lpc' = [lpc EXCEPT ![t] = "want_wait"]
    /\ op' = "leave_invalidate"
    /\ UNCHANGED <<rl_lock, local, beyondLocks>>

ThreadStep(t) ==
    \/ LockCall(t)
    \/ EnterWait(t)
    \/ LeaveWait(t)
    \/ EnterAuth(t)
    \/ \E fresh, ok \in BOOLEAN : LeaveAuth(t, fresh, ok)
    \/ \E response \in LockResponses : Answered(t, response)
    \/ EnterUpdate(t)
    \/ LeaveUpdate(t)
    \/ EnterInvalidate(t)
    \/ LeaveInvalidate(t)

NextLocks == \E t \in Callers : ThreadStep(t)

\* every thread that can take a step gets to take one: the scheduler runs runnable
\* threads, and sleeps and token exchanges end
SpecLocks == InitLocks /\ [][NextLocks]_vars /\ \A t \in Callers : WF_vars(ThreadStep(t))

WantsRateLimitLock == {"want_wait", "want_update"}
WantsTokenLock == {"want_auth", "want_invalidate"}
HoldsRateLimitLock == {"in_wait", "in_update"}
HoldsTokenLock == {"in_auth", "in_invalidate"}

\* C38: no thread holds the rate-limit lock and the token lock at once (a thread
\* inside a block of one lock holds that lock and not the other); the threads never
\* all wait; a thread that asks for a lock goes on only with that lock, and it does
\* go on: its call of request() ends.
C38_LocksInTurn ==
    /\ [](\A t \in Callers :
            /\ ~(rl_lock = t /\ auth_lock = t)
            /\ rl_lock = t <=> lpc[t] \in HoldsRateLimitLock
            /\ auth_lock = t <=> lpc[t] \in HoldsTokenLock)
    /\ []((\E t \in Callers : lpc[t] # "idle") => ENABLED NextLocks)
    /\ [][\A t \in Callers :
            /\ (lpc[t] \in WantsRateLimitLock /\ lpc'[t] # lpc[t]) => rl_lock' = t
            /\ (lpc[t] \in WantsTokenLock /\ lpc'[t] # lpc[t]) => auth_lock' = t]_vars
    /\ \A t \in Callers : (lpc[t] # "idle") ~> (lpc[t] = "idle")

\* one thread stores the headers of its response under the rate-limit lock while
\* the other, after its 401 and the invalidation, is in get_access_token under the
\* token lock
C38_Witness ==
    /\ lpc["t1"] = "in_update" /\ rl_lock = "t1"
    /\ lpc["t2"] = "in_auth" /\ auth_lock = "t2"
    /\ local["t2"].refreshed /\ token_info = NoToken

====
